---------------------------- MODULE Spec2Model ----------------------------
(***************************************************************************)
(* A model of the header translator of objc2:                              *)
(*   - parse_library, the multi-target driver        (main.rs)             *)
(*   - Lifetime::update, the lifetime cell           (rust_type.rs)        *)
(*   - AttributeParser, the attribute-spelling parser (rust_type.rs)       *)
(*   - Ty::parse, the type translator                (rust_type.rs)        *)
(*   - Ty::is_inner_cf_type, the CF classification   (rust_type.rs)        *)
(*   - the methods of a parsed Ty, main, update_ci and                     *)
(*     parse_translation_unit                (rust_type.rs, main.rs)       *)
(* and of CFData (objc2-core-foundation) and StrongPtr / WeakPtr (objc2).  *)
(*                                                                         *)
(* A string is modelled as a sequence of atoms.  An atom is a group of     *)
(* characters that none of the needles of the code splits: "_Nonnull",     *)
(* "const", "*", "[", "]", " " ... strip_prefix, strip_suffix, split_once and *)
(* trim work on these sequences the way the Rust methods work on the       *)
(* characters.                                                             *)
(***************************************************************************)
EXTENDS Integers, Sequences, FiniteSets, TLC

VARIABLES
    \* ---- parse_library (main.rs) ----
    drv_pc,        \* "idle" | "start" | "loop" | "returned" | "panicked"
    data,          \* LibraryConfig: which platforms the library declares
    sdks,          \* the platforms an SDK was found for
    sdk,           \* the SDK parse_library selected ("none" before)
    llvm_targets,  \* the triples to parse
    target_idx,    \* the number of triples the loop has handled
    result,        \* Option<Library>: NoLibrary or a library
    parsed,        \* history: the <<triple, library>> of every parsed triple
    returned,      \* the library parse_library returned
    \* ---- Lifetime::update (rust_type.rs) ----
    lt_pc,         \* "idle" | "run"
    lt_cell,       \* the Lifetime cell
    lt_calls,      \* history: [old, new, after, logged] of every update
    \* ---- AttributeParser (rust_type.rs) ----
    ap_pc,         \* "idle" | "live" | "dropped" | "panicked"
    ap_parser,     \* [name, expected_name]
    ap_last,       \* history: the last call, its arguments and what it returned
    ap_errors,     \* the number of errors the parser logged
    \* ---- Ty::parse (rust_type.rs) ----
    tp_pc,         \* "idle" | "loop" | "done" | "panicked"
    tp_input,      \* the clang type given to Ty::parse
    tp_lifetime,   \* the lifetime given to Ty::parse
    tp_st,         \* the locals of the loop over Unexposed / Attributed types
    tp_result,     \* what the call gave: [ty, log, drops, panic]
    \* ---- a parsed Ty after Ty::parse (rust_type.rs) ----
    tf_pc,         \* "idle" | "parsed" | "done" | "panicked"
    tf_self,       \* the Ty the method is called on
    tf_args,       \* the argument types of the function the Ty belongs to
    tf_name,       \* the name of that function
    tf_out,        \* history: the method called and what it gave
    \* ---- main (main.rs) ----
    mn_pc,         \* "idle" | the step main is at | "ok" | "failed"
    mn_before,     \* the files of the workspace when the run started
    mn_disk,       \* the files of the workspace now
    mn_written,    \* the number of libraries the writing loop is done with
    \* ---- CFData (objc2-core-foundation data.rs) ----
    cd_pc,         \* "idle" | "start" | "created"
    cd_bytes,      \* the byte slice given to from_bytes
    cd_data,       \* the CFData object: [bytes, length]
    cd_out,        \* history: the method called last and what it gave
    \* ---- StrongPtr and WeakPtr (objc2 rc) ----
    rc_pc,         \* "idle" | "run"
    rc_count,      \* the retain count of the object, 0: deallocated
    rc_strong,     \* the number of live StrongPtrs to the object
    rc_null,       \* the number of live StrongPtrs that hold null
    rc_weak,       \* the number of live WeakPtrs to the object
    rc_pool,       \* the releases the autorelease pool owes the object
    rc_out,        \* history: the operation done last and what it gave
    \* ---- parse_translation_unit (main.rs) ----
    tu_pc,         \* "idle" | "visit" | "panicked"
    tu_entities,   \* the children of the translation unit, in order
    tu_preprocessing,     \* the local `preprocessing`
    tu_macro_invocations, \* context.macro_invocations: the entities inserted
    tu_modules,    \* the entities library.add_module was called for
    tu_stmts,      \* the entities Stmt::parse was called for
    tu_visits,     \* history: the arm every visited entity took
    \* ---- update_ci (main.rs) ----
    ci_pc,         \* "idle" | "run" | "failed" | "panicked"
    ci_config,     \* the configuration: what each library is
    ci_file,       \* the text of ci.yml
    ci_runs        \* history: [before, after, result] of every call

drv_vars == <<drv_pc, data, sdks, sdk, llvm_targets, target_idx, result,
              parsed, returned>>
lt_vars  == <<lt_pc, lt_cell, lt_calls>>
ap_vars  == <<ap_pc, ap_parser, ap_last, ap_errors>>
tp_vars  == <<tp_pc, tp_input, tp_lifetime, tp_st, tp_result>>
tf_vars  == <<tf_pc, tf_self, tf_args, tf_name, tf_out>>
mn_vars  == <<mn_pc, mn_before, mn_disk, mn_written>>
cd_vars  == <<cd_pc, cd_bytes, cd_data, cd_out>>
rc_vars  == <<rc_pc, rc_count, rc_strong, rc_null, rc_weak, rc_pool, rc_out>>
tu_vars  == <<tu_pc, tu_entities, tu_preprocessing, tu_macro_invocations, tu_modules,
              tu_stmts, tu_visits>>
ci_vars  == <<ci_pc, ci_config, ci_file, ci_runs>>
vars     == <<drv_vars, lt_vars, ap_vars, tp_vars, tf_vars, mn_vars, cd_vars, rc_vars,
              tu_vars, ci_vars>>
\* What the actions of one component leave alone.
not_drv  == <<lt_vars, ap_vars, tp_vars, tf_vars, mn_vars,
             cd_vars, rc_vars, tu_vars, ci_vars>>
not_lt   == <<drv_vars, ap_vars, tp_vars, tf_vars, mn_vars,
             cd_vars, rc_vars, tu_vars, ci_vars>>
not_ap   == <<drv_vars, lt_vars, tp_vars, tf_vars, mn_vars,
             cd_vars, rc_vars, tu_vars, ci_vars>>
not_tp   == <<drv_vars, lt_vars, ap_vars, tf_vars, mn_vars,
             cd_vars, rc_vars, tu_vars, ci_vars>>
not_tf   == <<drv_vars, lt_vars, ap_vars, tp_vars, mn_vars,
             cd_vars, rc_vars, tu_vars, ci_vars>>
not_mn   == <<drv_vars, lt_vars, ap_vars, tp_vars, tf_vars,
             cd_vars, rc_vars, tu_vars, ci_vars>>
not_cd   == <<drv_vars, lt_vars, ap_vars, tp_vars, tf_vars, mn_vars,
             rc_vars, tu_vars, ci_vars>>
not_rc   == <<drv_vars, lt_vars, ap_vars, tp_vars, tf_vars, mn_vars,
             cd_vars, tu_vars, ci_vars>>
not_tu   == <<drv_vars, lt_vars, ap_vars, tp_vars, tf_vars, mn_vars,
             cd_vars, rc_vars, ci_vars>>
not_ci   == <<drv_vars, lt_vars, ap_vars, tp_vars, tf_vars, mn_vars,
             cd_vars, rc_vars, tu_vars>>

(***************************************************************************)
(* Bounds of the model.                                                    *)
(***************************************************************************)
\* The number of Lifetime::update calls made on one cell.
MaxUpdates == 3
\* The number of atoms of an attributed name given to a bare AttributeParser.
MaxNameLen == 3
\* The number of tokens an attributed spelling adds to the canonical one.
MaxAttrs == 2
\* The number of arguments of a function the global analysis looks at.
MaxArgs == 2
\* The number of typedefs a chain of typedefs goes through.
MaxChain == 3

(***************************************************************************)
(* parse_library                                                           *)
(***************************************************************************)
\* apple_sdk::Platform, as far as parse_library tells them apart; DriverKit
\* stands for every platform parse_library has no arm for.
Platforms == {"MacOsX", "IPhoneOs", "AppleTvOs", "WatchOs", "XrOs", "DriverKit"}

\* The per-platform keys of a LibraryConfig.
ConfigKeys == {"macos", "ios", "maccatalyst", "tvos", "watchos", "visionos"}

\* The libraries a parse of one translation unit followed by global analysis
\* can produce; what Clang yields for a triple is the environment's choice.
Libraries == {"libA", "libB"}
NoLibrary == "None"

\* PreferredPlatform with the first two arms of the closure swapped.
PreferredPlatformIosFirst(d) ==
    IF "ios" \in d THEN "IPhoneOs"
    ELSE IF "macos" \in d THEN "MacOsX"
    ELSE IF "maccatalyst" \in d THEN "MacOsX"
    ELSE IF "tvos" \in d THEN "AppleTvOs"
    ELSE IF "watchos" \in d THEN "WatchOs"
    ELSE IF "visionos" \in d THEN "XrOs"
    ELSE "panic"

\* The platform the closure of sdks.iter().find(..) compares an SDK with,
\* in the closure's order of preference; "panic" is its panic! arm.
PreferredPlatform(d) ==
    IF "macos" \in d THEN "MacOsX"
    ELSE IF "ios" \in d THEN "IPhoneOs"
    ELSE IF "maccatalyst" \in d THEN "MacOsX"
    ELSE IF "tvos" \in d THEN "AppleTvOs"
    ELSE IF "watchos" \in d THEN "WatchOs"
    ELSE IF "visionos" \in d THEN "XrOs"
    ELSE "panic"

\* sdks.iter().find(closure): the closure runs, and can panic, only when there
\* is an SDK to run it on; "none" is find's None.
FindSdk(s, d) ==
    IF s = {} THEN "none"
    ELSE IF PreferredPlatform(d) = "panic" THEN "panic"
    ELSE IF PreferredPlatform(d) \in s THEN PreferredPlatform(d)
    ELSE "none"

\* The match on sdk.platform that picks llvm_targets.
LlvmTargets(platform, d) ==
    CASE platform = "MacOsX" ->
            IF "macos" \in d THEN <<"arm64-apple-macosx10.12.0">>
            ELSE <<"arm64-apple-ios13.1.0-macabi">>
      [] platform = "IPhoneOs" -> <<"arm64-apple-ios10.0.0">>
      [] platform = "AppleTvOs" -> <<"arm64-apple-tvos">>
      [] platform = "WatchOs" -> <<"arm64-apple-watchos">>
      [] platform = "XrOs" -> <<"arm64-apple-xros">>
      [] OTHER -> <<>>

\* RecordResult keeping the library as Library::new made it, before the parse.
RecordResultUnparsed(prev, library) == "libNew"

\* The else arm of the loop body: result = Some(library).
RecordResult(prev, library) == library

\* let sdk = sdk.expect("find SDK"); let llvm_targets = match ...
SelectSdk ==
    /\ drv_pc = "start"
    /\ LET found == FindSdk(sdks, data) IN
         IF found \in {"none", "panic"}
         THEN /\ drv_pc' = "panicked"
              /\ UNCHANGED <<sdk, llvm_targets>>
         ELSE /\ drv_pc' = "loop"
              /\ sdk' = found
              /\ llvm_targets' = LlvmTargets(found, data)
    /\ UNCHANGED <<data, sdks, target_idx, result, parsed, returned>>
    /\ UNCHANGED not_drv

\* One iteration of `for llvm_target in llvm_targets`: a fresh Context and
\* Library, the translation unit parsed, global analysis run, and the result
\* compared with (assert_eq!) or recorded as the first result.
ParseTarget ==
    /\ drv_pc = "loop"
    /\ target_idx < Len(llvm_targets)
    /\ \E library \in Libraries :
         /\ parsed' = Append(parsed, <<llvm_targets[target_idx + 1], library>>)
         /\ IF result # NoLibrary
            THEN /\ drv_pc' = IF result = library THEN "loop" ELSE "panicked"
                 /\ UNCHANGED result
            ELSE /\ result' = RecordResult(result, library)
                 /\ UNCHANGED drv_pc
    /\ target_idx' = target_idx + 1
    /\ UNCHANGED <<data, sdks, sdk, llvm_targets, returned>>
    /\ UNCHANGED not_drv

\* result.unwrap()
ReturnLibrary ==
    /\ drv_pc = "loop"
    /\ target_idx = Len(llvm_targets)
    /\ IF result = NoLibrary
       THEN /\ drv_pc' = "panicked"
            /\ UNCHANGED returned
       ELSE /\ drv_pc' = "returned"
            /\ returned' = result
    /\ UNCHANGED <<data, sdks, sdk, llvm_targets, target_idx, result, parsed>>
    /\ UNCHANGED not_drv

DrvIdle ==
    /\ drv_pc = "idle" /\ data = {} /\ sdks = {} /\ sdk = "none"
    /\ llvm_targets = <<>> /\ target_idx = 0 /\ result = NoLibrary
    /\ parsed = <<>> /\ returned = NoLibrary

LtIdle == lt_pc = "idle" /\ lt_cell = "Unspecified" /\ lt_calls = <<>>

NoCall == [op |-> "none", needle |-> <<>>, position |-> "Suffix",
           before |-> <<>>, ok |-> FALSE]

ApIdle ==
    /\ ap_pc = "idle" /\ ap_parser = [name |-> <<>>, expected_name |-> <<>>]
    /\ ap_last = NoCall /\ ap_errors = 0

TpIdle ==
    /\ tp_pc = "idle" /\ tp_input = "none" /\ tp_lifetime = "Unspecified"
    /\ tp_st = "none" /\ tp_result = "none"

TfIdle ==
    /\ tf_pc = "idle" /\ tf_self = "none" /\ tf_args = <<>> /\ tf_name = <<>>
    /\ tf_out = "none"

MnIdle == mn_pc = "idle" /\ mn_before = "none" /\ mn_disk = "none" /\ mn_written = 0

CdIdle == cd_pc = "idle" /\ cd_bytes = <<>> /\ cd_data = "none" /\ cd_out = "none"

RcIdle ==
    /\ rc_pc = "idle" /\ rc_count = 0 /\ rc_strong = 0 /\ rc_null = 0 /\ rc_weak = 0
    /\ rc_pool = 0 /\ rc_out = "none"

TuIdle ==
    /\ tu_pc = "idle" /\ tu_entities = <<>> /\ tu_preprocessing = TRUE
    /\ tu_macro_invocations = {} /\ tu_modules = {} /\ tu_stmts = <<>>
    /\ tu_visits = <<>>

CiIdle == ci_pc = "idle" /\ ci_config = "none" /\ ci_file = <<>> /\ ci_runs = <<>>

\* The components that the specifications of the header translator leave
\* idle.
RestIdle == CdIdle /\ RcIdle /\ TuIdle /\ CiIdle

InitDriver ==
    /\ drv_pc = "start"
    /\ data \in SUBSET ConfigKeys
    /\ sdks \in SUBSET Platforms
    /\ sdk = "none"
    /\ llvm_targets = <<>>
    /\ target_idx = 0
    /\ result = NoLibrary
    /\ parsed = <<>>
    /\ returned = NoLibrary
    /\ LtIdle /\ ApIdle /\ TpIdle /\ TfIdle /\ MnIdle /\ RestIdle

NextDriver == SelectSdk \/ ParseTarget \/ ReturnLibrary

SpecDriver == InitDriver /\ [][NextDriver]_vars

(***************************************************************************)
(* Lifetime::update                                                        *)
(***************************************************************************)
Lifetimes == {"Unspecified", "Unretained", "Strong", "Weak", "Autoreleasing"}
SetLifetimes == Lifetimes \ {"Unspecified"}

\* Lifetime::update with the last value parsed winning.
LifetimeUpdateLastWins(old, new) ==
    IF new = "Unspecified" THEN [value |-> old, logged |-> FALSE]
    ELSE [value |-> new, logged |-> old \notin {"Unspecified", new}]

\* Lifetime::update overwriting the cell when it reports a conflict.
LifetimeUpdateOverwrite(old, new) ==
    IF new = "Unspecified" THEN [value |-> old, logged |-> FALSE]
    ELSE IF old = "Unspecified" THEN [value |-> new, logged |-> FALSE]
    ELSE IF old = "Strong" /\ new = "Strong" THEN [value |-> old, logged |-> FALSE]
    ELSE [value |-> new, logged |-> TRUE]

\* Lifetime::update with the (Strong, Strong) arm widened to every equal pair.
LifetimeUpdateSameSilent(old, new) ==
    IF new = "Unspecified" THEN [value |-> old, logged |-> FALSE]
    ELSE IF old = "Unspecified" THEN [value |-> new, logged |-> FALSE]
    ELSE IF old = new THEN [value |-> old, logged |-> FALSE]
    ELSE [value |-> old, logged |-> TRUE]

\* Lifetime::update: the value of the cell after the call and whether the
\* call logged "invalid lifetime update".
LifetimeUpdate(old, new) ==
    IF new = "Unspecified" THEN [value |-> old, logged |-> FALSE]
    ELSE IF old = "Unspecified" THEN [value |-> new, logged |-> FALSE]
    ELSE IF old = "Strong" /\ new = "Strong" THEN [value |-> old, logged |-> FALSE]
    ELSE [value |-> old, logged |-> TRUE]

UpdateCell ==
    /\ lt_pc = "run"
    /\ Len(lt_calls) < MaxUpdates
    /\ \E new \in Lifetimes :
         LET r == LifetimeUpdate(lt_cell, new) IN
           /\ lt_cell' = r.value
           /\ lt_calls' = Append(lt_calls, [old |-> lt_cell, new |-> new,
                                            after |-> r.value, logged |-> r.logged])
    /\ UNCHANGED lt_pc
    /\ UNCHANGED not_lt

InitLifetime ==
    /\ lt_pc = "run"
    /\ lt_cell \in Lifetimes
    /\ lt_calls = <<>>
    /\ DrvIdle /\ ApIdle /\ TpIdle /\ TfIdle /\ MnIdle /\ RestIdle

NextLifetime == UpdateCell

SpecLifetime == InitLifetime /\ [][NextLifetime]_vars

(***************************************************************************)
(* Strings: sequences of atoms.                                            *)
(***************************************************************************)
None == [some |-> FALSE, val |-> <<>>]
Some(v) == [some |-> TRUE, val |-> v]

RECURSIVE TrimStart(_)
TrimStart(s) ==
    IF s # <<>> /\ Head(s) = " " THEN TrimStart(Tail(s)) ELSE s

RECURSIVE TrimEnd(_)
TrimEnd(s) ==
    IF s # <<>> /\ s[Len(s)] = " " THEN TrimEnd(SubSeq(s, 1, Len(s) - 1)) ELSE s

\* str::trim
Trim(s) == TrimEnd(TrimStart(s))

\* str::strip_suffix
StripSuffix(s, needle) ==
    IF Len(needle) <= Len(s) /\ SubSeq(s, Len(s) - Len(needle) + 1, Len(s)) = needle
    THEN Some(SubSeq(s, 1, Len(s) - Len(needle)))
    ELSE None

\* str::strip_prefix
StripPrefix(s, needle) ==
    IF Len(needle) <= Len(s) /\ SubSeq(s, 1, Len(needle)) = needle
    THEN Some(SubSeq(s, Len(needle) + 1, Len(s)))
    ELSE None

\* str::split_once on a one-atom delimiter: the text before and after its
\* first occurrence.
SplitOnce(s, delim) ==
    IF \E i \in 1..Len(s) : s[i] = delim
    THEN LET i == CHOOSE k \in 1..Len(s) :
                    s[k] = delim /\ \A j \in 1..(k - 1) : s[j] # delim
         IN [some |-> TRUE, before |-> SubSeq(s, 1, i - 1),
             after |-> SubSeq(s, i + 1, Len(s))]
    ELSE [some |-> FALSE, before |-> <<>>, after |-> <<>>]

(***************************************************************************)
(* AttributeParser                                                         *)
(***************************************************************************)
Positions == {"Suffix", "Prefix"}

\* ParsePosition::strip
PositionStrip(position, s, needle) ==
    IF position = "Suffix" THEN StripSuffix(s, needle) ELSE StripPrefix(s, needle)

\* AttributeParser::new
NewParser(name, expected_name) ==
    [name |-> Trim(name), expected_name |-> Trim(expected_name)]

\* AttributeParser::strip without the look at expected_name.
StripIgnoringExpected(p, needle, position) ==
    LET rest == PositionStrip(position, p.name, needle) IN
    IF rest.some
    THEN [parser |-> [p EXCEPT !.name = Trim(rest.val)], ok |-> TRUE]
    ELSE [parser |-> p, ok |-> FALSE]

\* AttributeParser::strip without the support for a needle written twice.
StripNoDoubling(p, needle, position) ==
    LET rest == PositionStrip(position, p.name, needle) IN
    IF rest.some /\ ~PositionStrip(position, p.expected_name, needle).some
    THEN [parser |-> [p EXCEPT !.name = Trim(rest.val)], ok |-> TRUE]
    ELSE [parser |-> p, ok |-> FALSE]

\* AttributeParser::strip: the parser after the call and the value returned.
Strip(p, needle, position) ==
    LET rest == PositionStrip(position, p.name, needle) IN
    IF rest.some
    THEN IF PositionStrip(position, p.expected_name, needle).some
         THEN IF PositionStrip(position, Trim(rest.val), needle).some
              THEN [parser |-> [p EXCEPT !.name = Trim(rest.val)], ok |-> TRUE]
              ELSE [parser |-> p, ok |-> FALSE]
         ELSE [parser |-> [p EXCEPT !.name = Trim(rest.val)], ok |-> TRUE]
    ELSE [parser |-> p, ok |-> FALSE]

\* The needles of the code.
Const == <<"const">>
Kindof == <<"__kindof">>
NullableResult == <<"_Nullable", "_result">>
LifetimeNeedle(l) ==
    CASE l = "Unretained" -> <<"__unsafe_unretained">>
      [] l = "Strong" -> <<"__strong">>
      [] l = "Weak" -> <<"__weak">>
      [] l = "Autoreleasing" -> <<"__autoreleasing">>
NullabilityNeedle(n) ==
    CASE n = "Nullable" -> <<"_Nullable">>
      [] n = "NonNull" -> <<"_Nonnull">>
      [] n = "Unspecified" -> <<"_Null_unspecified">>

\* AttributeParser::lifetime
ParserLifetime(p, position) ==
    LET a == Strip(p, LifetimeNeedle("Unretained"), position)
        b == Strip(p, LifetimeNeedle("Strong"), position)
        c == Strip(p, LifetimeNeedle("Weak"), position)
        d == Strip(p, LifetimeNeedle("Autoreleasing"), position)
    IN IF a.ok THEN [parser |-> a.parser, value |-> "Unretained"]
       ELSE IF b.ok THEN [parser |-> b.parser, value |-> "Strong"]
       ELSE IF c.ok THEN [parser |-> c.parser, value |-> "Weak"]
       ELSE IF d.ok THEN [parser |-> d.parser, value |-> "Autoreleasing"]
       ELSE [parser |-> p, value |-> "Unspecified"]

\* AttributeParser::is_kindof
ParserIsKindof(p, position) == Strip(p, Kindof, position)

\* AttributeParser::is_const
ParserIsConst(p, position) == Strip(p, Const, position)

\* AttributeParser::nullability: Option<Nullability>, "None" when no
\* nullability attribute was stripped.
ParserNullability(p, position) ==
    LET a == Strip(p, NullabilityNeedle("Nullable"), position)
        b == Strip(p, NullabilityNeedle("NonNull"), position)
        c == Strip(p, NullabilityNeedle("Unspecified"), position)
    IN IF a.ok THEN [parser |-> a.parser, value |-> "Nullable"]
       ELSE IF b.ok THEN [parser |-> b.parser, value |-> "NonNull"]
       ELSE IF c.ok THEN [parser |-> c.parser, value |-> "Unspecified"]
       ELSE [parser |-> p, value |-> "None"]

\* AttributeParser::nullable_result
ParserNullableResult(p, position) == Strip(p, NullableResult, position)

\* AttributeParser::map with a closure that can panic (expect): the parser
\* after the call, and whether the closure panicked on either name.
ParserMap(p, name, expected_name, panicked) ==
    [parser |-> IF panicked THEN p
                ELSE [name |-> name, expected_name |-> expected_name],
     panicked |-> panicked]

\* AttributeParser::set_constant_array
SetConstantArray(p) ==
    LET n == SplitOnce(p.name, "[")
        e == SplitOnce(p.expected_name, "[")
    IN ParserMap(p, Trim(n.before), Trim(e.before), ~n.some \/ ~e.some)

\* AttributeParser::set_incomplete_array
SetIncompleteArray(p) ==
    LET n == StripSuffix(p.name, <<"[", "]">>)
        e == StripSuffix(p.expected_name, <<"[", "]">>)
    IN ParserMap(p, Trim(n.val), Trim(e.val), ~n.some \/ ~e.some)

\* The closure of set_fn_ptr on one string: the text between the first "("
\* and the first ")" after it.
FnPtrInner(s) ==
    LET open == SplitOnce(s, "(")
        close == SplitOnce(open.after, ")")
    IN IF open.some /\ close.some THEN Some(Trim(close.before)) ELSE None

\* AttributeParser::set_fn_ptr
SetFnPtr(p) ==
    LET n == FnPtrInner(p.name)
        e == FnPtrInner(p.expected_name)
    IN ParserMap(p, n.val, e.val, ~n.some \/ ~e.some)

\* AttributeParser::set_inner_pointer: the parser after the call and whether
\* "expected pointer to have star" was logged.
SetInnerPointer(p) ==
    LET rest == StripSuffix(p.name, <<"*">>) IN
    IF rest.some
    THEN [parser |-> [p EXCEPT !.name = Trim(rest.val)], logged |-> FALSE]
    ELSE [parser |-> p, logged |-> TRUE]

\* A drop that never logs.
DropLogsNever(p) == FALSE

\* impl Drop for AttributeParser, outside a panic: whether "could not extract
\* all attributes" is logged.
DropLogs(p) == p.name # p.expected_name

(***************************************************************************)
(* A bare AttributeParser: created on two strings, stripped, dropped.      *)
(***************************************************************************)
\* The atoms of the names given to a bare parser: white space, a name, and
\* two of the tokens.
StripAtoms == {" ", "id", "const", "_Nonnull"}
StripNeedles == {Const, NullabilityNeedle("NonNull")}

StringsUpTo(atoms, n) == UNION {[1..k -> atoms] : k \in 0..n}

ApStrip ==
    /\ ap_pc = "live"
    /\ \E needle \in StripNeedles, position \in Positions :
         LET r == Strip(ap_parser, needle, position) IN
           /\ ap_parser' = r.parser
           /\ ap_last' = [op |-> "strip", needle |-> needle, position |-> position,
                          before |-> ap_parser.name, ok |-> r.ok]
    /\ UNCHANGED <<ap_pc, ap_errors>>
    /\ UNCHANGED not_ap

ApDrop ==
    /\ ap_pc = "live"
    /\ ap_pc' = "dropped"
    /\ ap_errors' = IF DropLogs(ap_parser) THEN ap_errors + 1 ELSE ap_errors
    /\ UNCHANGED <<ap_parser, ap_last>>
    /\ UNCHANGED not_ap

InitStrip ==
    /\ ap_pc = "live"
    /\ \E name \in StringsUpTo(StripAtoms, MaxNameLen),
          expected_name \in StringsUpTo(StripAtoms, MaxNameLen) :
         ap_parser = NewParser(name, expected_name)
    /\ ap_last = NoCall
    /\ ap_errors = 0
    /\ DrvIdle /\ LtIdle /\ TpIdle /\ TfIdle /\ MnIdle /\ RestIdle

NextStrip == ApStrip \/ ApDrop

SpecStrip == InitStrip /\ [][NextStrip]_vars

(***************************************************************************)
(* Clang types, as far as Ty::parse reads them.                            *)
(*   kind        get_kind()                                                *)
(*   display     get_display_name()                                        *)
(*   nullability get_nullability(): "None" or a Nullability                *)
(*   is_const    is_const_qualified()                                      *)
(*   inner       the modified type of an Attributed or Unexposed type, the *)
(*               pointee of a pointer, the element of an array, the result *)
(*               of a function, the underlying type of a typedef or enum   *)
(*               declaration: <<>> for None, <<t>> for Some(t)             *)
(*   args        the argument types of a function, the type arguments of   *)
(*               an ObjCObject, the fields of a record                     *)
(*   protocols   get_objc_protocol_declarations(), by name                 *)
(*   base        get_objc_object_base_type(): <<>> or <<t>>                *)
(*   decl_name   the name of the declaration (typedef, record, interface)  *)
(*   decl_kind   the EntityKind of the declaration                         *)
(*   bridged     is_bridged(declaration)                                   *)
(*   variadic    is_variadic()                                             *)
(*   call_conv   get_calling_convention()                                  *)
(*   size        get_size()                                                *)
(* The types are not elaborated (is_elaborated() is not Some(true)).       *)
(***************************************************************************)
CT(kind, display) ==
    [kind |-> kind, display |-> display, nullability |-> "None",
     is_const |-> FALSE, inner |-> <<>>, args |-> <<>>, protocols |-> <<>>,
     base |-> <<>>, decl_name |-> <<>>, decl_kind |-> "None", bridged |-> FALSE,
     variadic |-> FALSE, call_conv |-> "Cdecl", size |-> 0]

(***************************************************************************)
(* enum Ty.  One record shape for every variant; a variant uses            *)
(*   Primitive: prim          Class: name, args (generics), protocols      *)
(*   GenericParam: name       AnyObject, AnyClass: protocols               *)
(*   Sel: nullability         Pointer: nullability, is_const, lifetime,    *)
(*   inner (pointee)          TypeDef: name (id), nullability, lifetime,   *)
(*   inner (to), is_cf        IncompleteArray: nullability, is_const,      *)
(*   inner (pointee)          Array, RustArray: inner (element_type), n    *)
(*   Enum: name, inner (ty)   Struct: name, args (fields), is_bridged      *)
(*   Fn, Block: variadic, no_escape, args, inner (result_type), sendable   *)
(***************************************************************************)
TyOf(tag) ==
    [tag |-> tag, prim |-> "None", name |-> <<>>, nullability |-> "Unspecified",
     is_const |-> FALSE, lifetime |-> "Unspecified", inner |-> <<>>,
     args |-> <<>>, protocols |-> <<>>, is_cf |-> FALSE, is_bridged |-> FALSE,
     variadic |-> FALSE, no_escape |-> FALSE, sendable |-> "None", n |-> 0]

TyPrimitive(p) == [TyOf("Primitive") EXCEPT !.prim = p]
TyClass(decl, generics, protocols) ==
    [TyOf("Class") EXCEPT !.name = decl, !.args = generics, !.protocols = protocols]
TyGenericParam(name) == [TyOf("GenericParam") EXCEPT !.name = name]
TyAnyObject(protocols) == [TyOf("AnyObject") EXCEPT !.protocols = protocols]
TyAnyClass(protocols) == [TyOf("AnyClass") EXCEPT !.protocols = protocols]
TyPointer(nullability, is_const, lifetime, pointee) ==
    [TyOf("Pointer") EXCEPT !.nullability = nullability, !.is_const = is_const,
                            !.lifetime = lifetime, !.inner = <<pointee>>]
TyTypeDef(id, nullability, lifetime, to, is_cf) ==
    [TyOf("TypeDef") EXCEPT !.name = id, !.nullability = nullability,
                            !.lifetime = lifetime, !.inner = <<to>>, !.is_cf = is_cf]
\* No value: the call panicked.
TyPanicked == TyOf("Panicked")

(***************************************************************************)
(* Ty::is_inner_cf_type                                                    *)
(***************************************************************************)
\* KNOWN_CF_TYPES: names of CFDatabase.def (the file is read with
\* include_str!); two of its names stand for the list.
KnownCfTypes == {<<"CFString", "Ref">>, <<"CFAllocator", "Ref">>}

\* Ty::is_inner_cf_type without the look at the bridging of the typedef.
IsInnerCfTypeIgnoringTypedef(self, typedef_name, typedef_is_bridged) ==
    IF self.tag = "TypeDef" THEN self.is_cf
    ELSE IF self.tag = "Pointer"
    THEN LET pointee == self.inner[1] IN
         IF pointee.tag = "Struct"
         THEN pointee.is_bridged \/ typedef_name \in KnownCfTypes
         ELSE IF pointee.tag = "Primitive" /\ pointee.prim = "Void"
         THEN typedef_name \in KnownCfTypes
         ELSE FALSE
    ELSE FALSE

\* Ty::is_inner_cf_type
IsInnerCfType(self, typedef_name, typedef_is_bridged) ==
    IF self.tag = "TypeDef" THEN self.is_cf
    ELSE IF self.tag = "Pointer"
    THEN LET pointee == self.inner[1] IN
         IF pointee.tag = "Struct"
         THEN pointee.is_bridged \/ typedef_name \in KnownCfTypes
         ELSE IF pointee.tag = "Primitive" /\ pointee.prim = "Void"
         THEN typedef_is_bridged \/ typedef_name \in KnownCfTypes
         ELSE FALSE
    ELSE FALSE

(***************************************************************************)
(* update_nullability, check_nullability                                   *)
(***************************************************************************)
Msg(cond, m) == IF cond THEN <<m>> ELSE <<>>

\* update_nullability that falls back to Unspecified on an invalid update.
UpdateNullabilityDefault(nullability, new) ==
    IF new = "None" THEN [value |-> nullability, logged |-> FALSE]
    ELSE IF nullability = "Unspecified" THEN [value |-> new, logged |-> FALSE]
    ELSE [value |-> "Unspecified", logged |-> TRUE]

\* update_nullability: the nullability after the call and whether "invalid
\* nullability update" was logged.
UpdateNullability(nullability, new) ==
    IF new = "None" THEN [value |-> nullability, logged |-> FALSE]
    ELSE IF nullability = "Unspecified" THEN [value |-> new, logged |-> FALSE]
    ELSE [value |-> nullability, logged |-> TRUE]

\* check_nullability: the nullability returned and whether "failed parsing
\* nullability" was logged.
CheckNullability(ty, new) ==
    [value |-> IF new = "None" THEN "Unspecified" ELSE new,
     logged |-> new # ty.nullability]

(***************************************************************************)
(* parse_unexposed_tokens                                                  *)
(***************************************************************************)
Openers == {"(", "["}
Closers == {")", "]"}
PunctAtoms == {"*", "^", ",", "<", ">"}
\* Atoms that continue the identifier written right before them.
ContinuationAtoms == {"_result", "Ref"}

\* Whether the delimiters of s from place i on are balanced, given the stack
\* of the delimiters that are open.
RECURSIVE BalancedFrom(_, _, _)
BalancedFrom(s, i, stack) ==
    IF i > Len(s) THEN stack = <<>>
    ELSE IF s[i] \in Openers
    THEN BalancedFrom(s, i + 1, <<IF s[i] = "(" THEN ")" ELSE "]">> \o stack)
    ELSE IF s[i] \in Closers
    THEN stack # <<>> /\ Head(stack) = s[i] /\ BalancedFrom(s, i + 1, Tail(stack))
    ELSE BalancedFrom(s, i + 1, stack)

\* Whether TokenStream::from_str accepts the string.
Lexes(s) == BalancedFrom(s, 1, <<>>)

\* The place of the delimiter that closes the group opened before place i,
\* with depth groups open.
RECURSIVE GroupEnd(_, _, _)
GroupEnd(s, i, depth) ==
    IF i > Len(s) THEN Len(s)
    ELSE IF s[i] \in Openers THEN GroupEnd(s, i + 1, depth + 1)
    ELSE IF s[i] \in Closers
    THEN IF depth = 1 THEN i ELSE GroupEnd(s, i + 1, depth - 1)
    ELSE GroupEnd(s, i + 1, depth)

\* The place of the last atom of the identifier that starts at place i.
RECURSIVE IdentEnd(_, _)
IdentEnd(s, i) ==
    IF i < Len(s) /\ s[i + 1] \in ContinuationAtoms THEN IdentEnd(s, i + 1) ELSE i

\* iter.next() on the tokens of s: s without its first token tree.
DropFirstToken(s) ==
    LET t == TrimStart(s) IN
    IF t = <<>> THEN t
    ELSE IF Head(t) \in Openers THEN SubSeq(t, GroupEnd(t, 2, 1) + 1, Len(t))
    ELSE SubSeq(t, IdentEnd(t, 1) + 1, Len(t))

\* TokenStream's to_string: the token trees separated by one space, nothing
\* after an opening and before a closing delimiter, nothing between joint
\* punctuation.
RECURSIVE RenderFrom(_, _, _, _, _)
RenderFrom(s, i, prev, gap, out) ==
    IF i > Len(s) THEN out
    ELSE IF s[i] = " " THEN RenderFrom(s, i + 1, prev, TRUE, out)
    ELSE LET a == s[i]
             glue == \/ prev = ""
                     \/ prev \in Openers
                     \/ a \in Closers
                     \/ (~gap /\ a \in ContinuationAtoms)
                     \/ (~gap /\ prev \in PunctAtoms /\ a \in PunctAtoms)
         IN RenderFrom(s, i + 1, a, FALSE,
                       IF glue THEN Append(out, a) ELSE out \o <<" ", a>>)
Render(s) == RenderFrom(s, 1, "", FALSE, <<>>)

\* UnexposedAttr::from_name: whether the name is a known macro, whether it
\* calls get_arguments, and the attribute it gives ("None" for Ok(None)).
Macro(takes_group, attr) == [known |-> TRUE, takes_group |-> takes_group, attr |-> attr]
FromName(ident) ==
    CASE ident = "NS_RETURNS_RETAINED" -> Macro(FALSE, "ReturnsRetained")
      [] ident = "NS_RETURNS_NOT_RETAINED" -> Macro(FALSE, "ReturnsNotRetained")
      [] ident = "NS_NOESCAPE" -> Macro(FALSE, "NoEscape")
      [] ident = "NS_SWIFT_UI_ACTOR" -> Macro(FALSE, "UIActor")
      [] ident = "NS_SWIFT_NONISOLATED" -> Macro(FALSE, "NonIsolated")
      [] ident = "NS_SWIFT_SENDABLE" -> Macro(FALSE, "Sendable")
      [] ident = "NS_SWIFT_NONSENDABLE" -> Macro(FALSE, "NonSendable")
      [] ident = "NS_RETURNS_INNER_POINTER" -> Macro(FALSE, "None")
      [] ident = "NS_REFINED_FOR_SWIFT" -> Macro(FALSE, "None")
      [] ident \in {"NS_SWIFT_NAME", "NS_SWIFT_UNAVAILABLE", "API_AVAILABLE",
                    "API_UNAVAILABLE", "API_DEPRECATED",
                    "API_DEPRECATED_WITH_REPLACEMENT"} -> Macro(TRUE, "None")
      [] OTHER -> [known |-> FALSE, takes_group |-> FALSE, attr |-> "None"]

\* parse_unexposed_tokens that calls iter.next() once more than it should
\* for a macro without arguments.
ParseUnexposedTokensExtraNext(s) ==
    IF ~Lexes(s)
    THEN [rest |-> s, attr |-> "None", logged |-> FALSE, panicked |-> TRUE]
    ELSE LET t == TrimStart(s)
             is_ident == t # <<>> /\ Head(t) \notin (Openers \cup Closers \cup PunctAtoms)
                                  /\ IdentEnd(t, 1) = 1
             f == IF is_ident THEN FromName(Head(t)) ELSE FromName("")
             after == TrimStart(Tail(t))
             has_group == after # <<>> /\ Head(after) \in Openers
         IN IF ~f.known
            THEN [rest |-> Render(s), attr |-> "None", logged |-> FALSE, panicked |-> FALSE]
            ELSE [rest |-> Render(DropFirstToken(after)), attr |-> f.attr,
                  logged |-> f.takes_group /\ ~has_group, panicked |-> FALSE]

\* parse_unexposed_tokens: the rest of the string, the attribute, whether
\* "expected group in macro" was logged, and whether from_str panicked.
ParseUnexposedTokens(s) ==
    IF ~Lexes(s)
    THEN [rest |-> s, attr |-> "None", logged |-> FALSE, panicked |-> TRUE]
    ELSE LET t == TrimStart(s)
             is_ident == t # <<>> /\ Head(t) \notin (Openers \cup Closers \cup PunctAtoms)
                                  /\ IdentEnd(t, 1) = 1
             f == IF is_ident THEN FromName(Head(t)) ELSE FromName("")
             after == TrimStart(Tail(t))
             has_group == after # <<>> /\ Head(after) \in Openers
         IN IF ~f.known
            THEN [rest |-> Render(s), attr |-> "None", logged |-> FALSE, panicked |-> FALSE]
            ELSE IF f.takes_group
            THEN [rest |-> Render(DropFirstToken(after)), attr |-> f.attr,
                  logged |-> ~has_group, panicked |-> FALSE]
            ELSE [rest |-> Render(Tail(t)), attr |-> f.attr,
                  logged |-> FALSE, panicked |-> FALSE]

(***************************************************************************)
(* Ty::parse                                                               *)
(*                                                                         *)
(* The value of a call: the Ty, the errors logged (error!; warn! is left   *)
(* out), the AttributeParsers dropped, each as it was when dropped, and    *)
(* the message of the panic that ended the call ("" for none).             *)
(***************************************************************************)
PR(ty, log, drops) == [ty |-> ty, log |-> log, drops |-> drops, panic |-> ""]
Abort(msg, log, drops) == [ty |-> TyPanicked, log |-> log, drops |-> drops, panic |-> msg]

LifetimeError == "invalid lifetime update"
NullabilityError == "failed parsing nullability"
DropError == "could not extract all attributes"
DropMsgs(p) == Msg(DropLogs(p), DropError)

\* The closure get_is_const of Ty::parse.
GetIsConst(new, ty) == IF new THEN TRUE ELSE ty.is_const

\* Context::replace_protocol_name
ReplaceProtocolName(id) ==
    IF id = <<"NSObject">> THEN <<"NSObject", "Protocol">> ELSE id

\* Context::replace_typedef_name
ReplaceTypedefName(id, is_cf) ==
    IF is_cf /\ StripSuffix(id, <<"Ref">>).some THEN StripSuffix(id, <<"Ref">>).val ELSE id

\* The first arms of the match on ty.get_kind().
PrimitiveKinds == {"Void", "Bool", "CharS", "CharU", "SChar", "UChar", "Short",
                   "UShort", "Int", "UInt", "Long", "ULong", "LongLong",
                   "ULongLong", "Float", "Double"}
KindPrimitive(kind) ==
    CASE kind = "Bool" -> "C99Bool"
      [] kind \in {"CharS", "CharU"} -> "Char"
      [] OTHER -> kind

\* The typedef names Ty::parse gives a primitive for.
TypedefPrimitives ==
    {"BOOL", "IMP", "int8_t", "__int8_t", "uint8_t", "__uint8_t", "int16_t",
     "__int16_t", "uint16_t", "__uint16_t", "int32_t", "__int32_t", "uint32_t",
     "__uint32_t", "int64_t", "__int64_t", "uint64_t", "__uint64_t", "ssize_t",
     "size_t", "ptrdiff_t", "intptr_t", "uintptr_t", "__builtin_va_list",
     "UInt8", "UInt16", "UInt32", "UInt64", "SInt8", "SInt16", "SInt32",
     "SInt64", "Float32", "Float64", "NSInteger", "NSUInteger"}
TypedefPrimitive(n) ==
    CASE n = "BOOL" -> "ObjcBool"
      [] n = "IMP" -> "Imp"
      [] n \in {"int8_t", "__int8_t", "SInt8"} -> "I8"
      [] n \in {"uint8_t", "__uint8_t", "UInt8"} -> "U8"
      [] n \in {"int16_t", "__int16_t", "SInt16"} -> "I16"
      [] n \in {"uint16_t", "__uint16_t", "UInt16"} -> "U16"
      [] n \in {"int32_t", "__int32_t", "SInt32"} -> "I32"
      [] n \in {"uint32_t", "__uint32_t", "UInt32"} -> "U32"
      [] n \in {"int64_t", "__int64_t", "SInt64"} -> "I64"
      [] n \in {"uint64_t", "__uint64_t", "UInt64"} -> "U64"
      [] n \in {"ssize_t", "intptr_t"} -> "ISize"
      [] n \in {"size_t", "uintptr_t"} -> "USize"
      [] n = "ptrdiff_t" -> "PtrDiff"
      [] n = "__builtin_va_list" -> "VaList"
      [] n = "Float32" -> "F32"
      [] n = "Float64" -> "F64"
      [] n = "NSInteger" -> "NSInteger"
      [] n = "NSUInteger" -> "NSUInteger"

\* The state of the loop that peels Unexposed and Attributed types.
\* let x = value; body: the value is computed once, before the body.
With(value, Body(_)) == CHOOSE out \in {Body(x) : x \in {value}} : TRUE

\* The digits of the vector sizes, and what parse::<usize> makes of them.
SizeDigits == {"2", "3", "4", "8"}
ParseUsize(digits) ==
    CASE digits = "2" -> 2 [] digits = "3" -> 3 [] digits = "4" -> 4 [] OTHER -> 8

\* The match on the primitive of parse_ext_vector_type ("None": unhandled).
ExtVectorPrimitive(primitive) ==
    CASE primitive = <<"float">> -> "Float"
      [] primitive = <<"double">> -> "Double"
      [] primitive \in {<<"uint">>, <<"unsigned", " ", "int">>} -> "UInt"
      [] primitive = <<"int">> -> "Int"
      [] primitive = <<"short">> -> "Short"
      [] primitive \in {<<"ushort">>, <<"unsigned", " ", "short">>} -> "UShort"
      [] primitive \in {<<"uchar">>, <<"unsigned", " ", "char">>} -> "UChar"
      [] primitive = <<"char">> -> "Char"
      [] primitive = <<"long">> -> "Long"
      [] primitive \in {<<"ulong">>, <<"unsigned", " ", "long">>} -> "ULong"
      [] primitive \in {<<"half">>, <<"_Float16">>} -> "I16"
      [] OTHER -> "None"

\* parse_ext_vector_type, that is the regular expression
\* (.*).* __attribute__.*ext_vector_type\((\d+)\).* on the name: the first
\* group, greedy, is all that comes before the last " __attribute__" with an
\* ext_vector_type(N) after it, the second the N of the last ext_vector_type.
\* The value is the Option<Ty> (<<>> for None) and whether "Unhandled
\* ext_vector_type primitive" was logged.
ParseExtVectorType(name) ==
    LET Sized(j) == /\ j + 3 <= Len(name)
                    /\ name[j] = "ext_vector_type" /\ name[j + 1] = "("
                    /\ name[j + 2] \in SizeDigits /\ name[j + 3] = ")"
        sizes == {j \in 1..Len(name) : Sized(j)}
        starts == {i \in 1..(Len(name) - 1) :
                      /\ name[i] = " " /\ name[i + 1] = "__attribute__"
                      /\ \E j \in sizes : j > i + 1}
    IN IF starts = {} THEN [ty |-> <<>>, logged |-> FALSE]
       ELSE LET i == CHOOSE x \in starts : \A y \in starts : y <= x
                j == CHOOSE x \in sizes : \A y \in sizes : y <= x
                prim == ExtVectorPrimitive(SubSeq(name, 1, i - 1))
            IN IF prim = "None" THEN [ty |-> <<>>, logged |-> TRUE]
               ELSE [ty |-> <<[TyOf("RustArray") EXCEPT
                                  !.inner = <<TyPrimitive(prim)>>,
                                  !.n = ParseUsize(name[j + 2])]>>,
                     logged |-> FALSE]

\* The start of Ty::parse: the vector type the name gives, if it holds
\* ext_vector_type.
ExtVectorOf(name) ==
    IF \E i \in DOMAIN name : name[i] = "ext_vector_type" THEN ParseExtVectorType(name)
    ELSE [ty |-> <<>>, logged |-> FALSE]

\* The state of Ty::parse before the loop; vector holds the type of the
\* early return.
PeelStart(attributed_ty, lifetime) ==
    With(ExtVectorOf(attributed_ty.display), LAMBDA v :
    [ty |-> attributed_ty, attributed_name |-> attributed_ty.display,
     name |-> attributed_ty.display, lifetime |-> lifetime,
     unexposed_nullability |-> "None", no_escape |-> FALSE,
     log |-> Msg(v.logged, "Unhandled ext_vector_type primitive"),
     panic |-> "", broke |-> FALSE, vector |-> v.ty])


\* The condition of a loop that peels Attributed types only.
PeelingAttributedOnly(st) ==
    st.vector = <<>> /\ st.panic = "" /\ ~st.broke /\ st.ty.kind = "Attributed"

\* The condition of the loop.
Peeling(st) ==
    /\ st.vector = <<>>
    /\ st.panic = "" /\ ~st.broke /\ st.ty.kind \in {"Unexposed", "Attributed"}

\* One iteration of the loop.
PeelStep(st) ==
    IF st.ty.kind = "Attributed"
    THEN IF st.ty.inner = <<>>
         THEN [st EXCEPT !.panic = "attributed type to have modified type"]
         ELSE [st EXCEPT !.ty = st.ty.inner[1], !.name = st.ty.inner[1].display]
    ELSE LET a == ParseUnexposedTokens(st.attributed_name)
             n == ParseUnexposedTokens(st.name)
             log == st.log
                 \o Msg(st.ty.nullability # "None" /\ st.unexposed_nullability # "None",
                        "unexposed nullability already set")
                 \o Msg(a.logged, "expected group in macro")
                 \o Msg(n.logged, "expected group in macro")
                 \o Msg(a.attr # n.attr, "attributed attr was not equal to attr")
                 \o Msg(n.attr \notin {"None", "NonIsolated", "UIActor", "Sendable",
                                      "NonSendable", "ReturnsRetained",
                                      "ReturnsNotRetained", "NoEscape"},
                        "unknown attribute on type")
                 \o Msg(st.ty.inner = <<>>,
                        "expected unexposed / attributed type to have modified type")
         IN IF a.panicked \/ n.panicked
            THEN [st EXCEPT !.panic = "parse attributed name"]
            ELSE [ty |-> IF st.ty.inner # <<>> THEN st.ty.inner[1] ELSE st.ty.base[1],
                  attributed_name |-> a.rest,
                  name |-> IF st.ty.inner # <<>> THEN n.rest ELSE st.ty.base[1].display,
                  lifetime |-> IF n.attr = "ReturnsRetained" THEN "Strong"
                               ELSE IF n.attr = "ReturnsNotRetained" THEN "Autoreleasing"
                               ELSE st.lifetime,
                  unexposed_nullability |->
                      IF st.ty.nullability # "None" THEN st.ty.nullability
                      ELSE st.unexposed_nullability,
                  no_escape |-> st.no_escape \/ n.attr = "NoEscape",
                  log |-> log,
                  panic |-> "",
                  broke |-> st.ty.inner = <<>>,
                  vector |-> st.vector]

RECURSIVE PeelAll(_)
PeelAll(st) ==
    IF Peeling(st) THEN With(PeelStep(st), LAMBDA next : PeelAll(next)) ELSE st

\* The nullability of the arms that prefer the nullability read while
\* peeling: the nullability, the parser afterwards and whether
\* check_nullability logged.
ArmNullability(attributed_ty, st, parser) ==
    LET np == ParserNullability(parser, "Suffix")
        chk == CheckNullability(attributed_ty, np.value)
    IN IF st.unexposed_nullability # "None"
       THEN [value |-> st.unexposed_nullability, parser |-> parser, logged |-> FALSE]
       ELSE [value |-> chk.value, parser |-> np.parser, logged |-> chk.logged]

\* TypeKind::ObjCId
ArmObjCId(attributed_ty, st) ==
    With(ParserLifetime(NewParser(st.attributed_name, <<"id">>), "Prefix"), LAMBDA l1 :
    With(ParserIsConst(l1.parser, "Suffix"), LAMBDA c :
    With(ParserLifetime(c.parser, "Suffix"), LAMBDA l2 :
    With(ParserNullableResult(l2.parser, "Suffix"), LAMBDA nr :
    With(ArmNullability(attributed_ty, st, nr.parser), LAMBDA nn :
    LET u1 == LifetimeUpdate(st.lifetime, l1.value)
        u2 == LifetimeUpdate(u1.value, l2.value)
    IN PR(TyPointer(nn.value, GetIsConst(c.ok, st.ty), u2.value, TyAnyObject(<<>>)),
          st.log \o Msg(u1.logged, LifetimeError) \o Msg(u2.logged, LifetimeError)
                 \o Msg(nn.logged, NullabilityError) \o DropMsgs(nn.parser),
          <<nn.parser>>))))))

\* TypeKind::ObjCClass
ArmObjCClass(attributed_ty, st) ==
    With(ParserLifetime(NewParser(st.attributed_name, st.name), "Suffix"), LAMBDA l :
    With(ParserNullability(l.parser, "Suffix"), LAMBDA np :
    LET nullability ==
            IF st.unexposed_nullability # "None" THEN st.unexposed_nullability
            ELSE IF np.value # "None" THEN np.value
            ELSE IF st.ty.nullability # "None" THEN st.ty.nullability
            ELSE "Unspecified"
    IN PR(TyPointer(nullability, TRUE, l.value, TyAnyClass(<<>>)),
          st.log \o DropMsgs(np.parser), <<np.parser>>)))

\* TypeKind::ObjCSel
ArmObjCSel(attributed_ty, st) ==
    With(ArmNullability(attributed_ty, st, NewParser(st.attributed_name, st.name)),
         LAMBDA nn :
    PR([TyOf("Sel") EXCEPT !.nullability = nn.value],
       st.log \o Msg(nn.logged, NullabilityError) \o DropMsgs(nn.parser),
       <<nn.parser>>))

\* TypeKind::ObjCInterface
ArmObjCInterface(attributed_ty, st) ==
    IF st.ty.decl_kind = "None" THEN Abort("ObjCInterface declaration", st.log, <<>>)
    ELSE IF st.ty.args # <<>> THEN Abort("generics not empty", st.log, <<>>)
    ELSE IF st.ty.protocols # <<>> THEN Abort("protocols not empty", st.log, <<>>)
    ELSE IF st.name = <<"Protocol">> THEN PR(TyOf("AnyProtocol"), st.log, <<>>)
    ELSE LET stripped == StripPrefix(st.name, <<"const", " ">>)
             shown == IF stripped.some THEN stripped.val ELSE st.name
         IN PR(TyClass(st.ty.decl_name, <<>>, <<>>),
               st.log \o Msg(st.ty.decl_name # shown, "invalid interface name"),
               <<>>)

\* Ty::parse: the loop, then the match.
RECURSIVE Dispatch(_, _)
TyParse(attributed_ty, lifetime) ==
    With(PeelAll(PeelStart(attributed_ty, lifetime)), LAMBDA st :
         Dispatch(attributed_ty, st))

\* The empty collection a map(..).collect() starts from.
NoneParsed(log) == [tys |-> <<>>, log |-> log, drops |-> <<>>, panic |-> ""]

RECURSIVE ParseAll(_, _)

\* The map(|ty| Self::parse(ty, Lifetime::Unspecified, context)).collect()
\* of the arms: the types parsed in order, until one panics.
ParseAll(types, acc) ==
    IF types = <<>> \/ acc.panic # "" THEN acc
    ELSE With(TyParse(Head(types), "Unspecified"), LAMBDA r :
         With([tys |-> Append(acc.tys, r.ty), log |-> acc.log \o r.log,
               drops |-> acc.drops \o r.drops, panic |-> r.panic], LAMBDA next :
         ParseAll(Tail(types), next)))

\* TypeKind::Record
ArmRecord(attributed_ty, st) ==
    IF st.ty.decl_kind = "None" THEN Abort("record declaration", st.log, <<>>)
    ELSE With(ParseAll(st.ty.args, NoneParsed(st.log)), LAMBDA fields :
         IF fields.panic # "" THEN Abort(fields.panic, fields.log, fields.drops)
         ELSE PR([TyOf("Struct") EXCEPT !.name = st.ty.decl_name, !.args = fields.tys,
                                     !.is_bridged = st.ty.bridged],
                 fields.log, fields.drops))

\* TypeKind::Enum
ArmEnum(attributed_ty, st) ==
    IF st.ty.decl_kind = "None" THEN Abort("enum declaration", st.log, <<>>)
    ELSE IF st.ty.inner = <<>> THEN Abort("enum underlying type", st.log, <<>>)
    ELSE With(TyParse(st.ty.inner[1], "Unspecified"), LAMBDA r :
         IF r.panic # "" THEN Abort(r.panic, st.log \o r.log, r.drops)
         ELSE PR([TyOf("Enum") EXCEPT !.name = st.ty.decl_name, !.inner = <<r.ty>>],
                 st.log \o r.log, r.drops))

\* TypeKind::ObjCObject
ArmObjCObject(attributed_ty, st) ==
    IF st.ty.base = <<>> THEN Abort("object to have base type", st.log, <<>>)
    ELSE With(ParseAll(st.ty.args, NoneParsed(st.log)), LAMBDA generics :
         LET base_ty == st.ty.base[1]
             name == base_ty.display
             protocols == [i \in 1..Len(st.ty.protocols) |->
                              ReplaceProtocolName(st.ty.protocols[i])]
         IN IF generics.panic # ""
            THEN Abort(generics.panic, generics.log, generics.drops)
            ELSE IF base_ty.kind = "ObjCId"
            THEN IF name # <<"id">>
                 THEN Abort("assert_eq!(name, id)", generics.log, generics.drops)
                 ELSE IF generics.tys # <<>>
                 THEN Abort("generics not empty", generics.log, generics.drops)
                 ELSE PR(TyAnyObject(protocols), generics.log, generics.drops)
            ELSE IF base_ty.kind = "ObjCInterface"
            THEN LET log == generics.log
                        \o Msg(base_ty.decl_name # name,
                               "ObjCObject -> ObjCInterface invalid name")
                 IN IF base_ty.decl_kind = "None"
                    THEN Abort("ObjCObject -> ObjCInterface declaration",
                               generics.log, generics.drops)
                    ELSE IF generics.tys # <<>> /\ protocols # <<>>
                    THEN Abort("got object with both protocols and generics",
                               log, generics.drops)
                    ELSE IF generics.tys = <<>> /\ protocols = <<>>
                    THEN Abort("got object with empty protocols and generics",
                               log, generics.drops)
                    ELSE PR(TyClass(base_ty.decl_name, generics.tys, protocols),
                            log, generics.drops)
            ELSE IF base_ty.kind = "ObjCClass"
            THEN IF generics.tys # <<>>
                 THEN Abort("ObjCClass with generics", generics.log, generics.drops)
                 ELSE PR(TyAnyClass(protocols), generics.log, generics.drops)
            ELSE Abort("unknown ObjCObject kind", generics.log, generics.drops))

FunctionKinds == {"FunctionPrototype", "FunctionNoPrototype"}

\* TypeKind::Pointer
ArmPointer(attributed_ty, st) ==
    IF st.ty.inner = <<>> THEN Abort("pointer to have pointee", st.log, <<>>)
    ELSE
    LET pointee == st.ty.inner[1] IN
    With(IF pointee.kind \in FunctionKinds
         THEN SetFnPtr(NewParser(st.attributed_name, st.name))
         ELSE [parser |-> NewParser(st.attributed_name, st.name), panicked |-> FALSE],
         LAMBDA f :
    IF f.panicked THEN Abort("fn to have parenthesis", st.log, <<>>)
    ELSE
    With(ArmNullability(attributed_ty, st, f.parser), LAMBDA nn :
    With(TyParse(pointee, "Unspecified"), LAMBDA r :
    LET log == st.log \o Msg(nn.logged, NullabilityError)
    IN IF r.panic # "" THEN Abort(r.panic, log \o r.log, r.drops)
       ELSE PR(TyPointer(nn.value, st.ty.is_const \/ pointee.is_const,
                         st.lifetime, r.ty),
               log \o r.log \o DropMsgs(nn.parser),
               r.drops \o <<nn.parser>>))))

\* TypeKind::BlockPointer
ArmBlockPointer(attributed_ty, st) ==
    With(SetFnPtr(NewParser(st.attributed_name, st.name)), LAMBDA f :
    IF f.panicked THEN Abort("fn to have parenthesis", st.log, <<>>)
    ELSE
    With(ParserIsConst(f.parser, "Suffix"), LAMBDA c :
    With(ParserLifetime(c.parser, "Suffix"), LAMBDA l :
    With(ParserNullability(l.parser, "Suffix"), LAMBDA np :
    LET u == LifetimeUpdate(st.lifetime, l.value)
        chk == CheckNullability(attributed_ty, np.value)
        use == st.unexposed_nullability # "None"
        log == st.log \o Msg(u.logged, LifetimeError)
                      \o Msg(~use /\ chk.logged, NullabilityError)
    IN IF st.ty.inner = <<>> THEN Abort("pointer type to have pointee", log, <<>>)
       ELSE With(TyParse(st.ty.inner[1], "Unspecified"), LAMBDA r :
            IF r.panic # "" THEN Abort(r.panic, log \o r.log, r.drops)
            ELSE IF r.ty.tag = "Fn" /\ ~r.ty.variadic
            THEN PR(TyPointer(IF use THEN st.unexposed_nullability ELSE chk.value,
                              GetIsConst(c.ok, st.ty), u.value,
                              [TyOf("Block") EXCEPT !.no_escape = r.ty.no_escape,
                                                    !.args = r.ty.args, !.inner = r.ty.inner]),
                    log \o r.log \o DropMsgs(np.parser),
                    r.drops \o <<np.parser>>)
            ELSE Abort("unexpected pointee in block", log \o r.log, r.drops))))))

\* The loop of the ObjCObjectPointer arm that takes the Attributed types off
\* the pointee: <<>> when one of them has no modified type.
RECURSIVE ModifiedOf(_)
ModifiedOf(ty) ==
    IF ty.kind # "Attributed" THEN <<ty>>
    ELSE IF ty.inner = <<>> THEN <<>>
    ELSE ModifiedOf(ty.inner[1])

\* TypeKind::ObjCObjectPointer, the parser of the pointer's attributed name:
\* what the arm knows when that parser is dropped.
PointerAttributes(attributed_ty, st) ==
    With(ParserIsKindof(NewParser(st.attributed_name, st.name), "Prefix"), LAMBDA k :
    With(ParserIsConst(k.parser, "Suffix"), LAMBDA c :
    With(ParserLifetime(c.parser, "Suffix"), LAMBDA l1 :
    With(ParserNullableResult(l1.parser, "Suffix"), LAMBDA nr :
    With(ArmNullability(attributed_ty, st, nr.parser), LAMBDA nn :
    With(ParserLifetime(nn.parser, "Suffix"), LAMBDA l2 :
    LET u1 == LifetimeUpdate(st.lifetime, l1.value)
        u2 == LifetimeUpdate(u1.value, l2.value)
    IN [is_kindof |-> k.ok, is_const |-> c.ok \/ st.ty.is_const,
        nullability |-> nn.value, lifetime |-> u2.value,
        log |-> st.log \o Msg(u1.logged, LifetimeError)
                       \o Msg(nn.logged, NullabilityError)
                       \o Msg(u2.logged, LifetimeError) \o DropMsgs(l2.parser),
        drops |-> <<l2.parser>>]))))))

\* TypeKind::ObjCObjectPointer, the parser of the pointee's name; __kindof is
\* looked for only when the pointer's name had none.
PointeeAttributes(pointee, ty, s) ==
    With(IF s.is_kindof THEN NewParser(pointee.display, ty.display)
         ELSE ParserIsKindof(NewParser(pointee.display, ty.display), "Prefix").parser,
         LAMBDA p :
    With(ParserIsConst(p, "Suffix"), LAMBDA c :
    With(ParserLifetime(c.parser, "Suffix"), LAMBDA l3 :
    With(ParserNullability(l3.parser, "Suffix"), LAMBDA new :
    With(ParserLifetime(new.parser, "Suffix"), LAMBDA l4 :
    LET u3 == LifetimeUpdate(s.lifetime, l3.value)
        un == UpdateNullability(s.nullability, new.value)
        u4 == LifetimeUpdate(u3.value, l4.value)
    IN [s EXCEPT !.nullability = un.value, !.lifetime = u4.value,
                 !.log = @ \o Msg(u3.logged, LifetimeError)
                           \o Msg(new.value # pointee.nullability, NullabilityError)
                           \o Msg(un.logged, "invalid nullability update")
                           \o Msg(u4.logged, LifetimeError) \o DropMsgs(l4.parser),
                 !.drops = Append(@, l4.parser)])))))

\* TypeKind::ObjCObjectPointer, the parser of the pointer's display name
\* against the pointee's.
PointerNameAttributes(pointer_name, pointee, ty, s) ==
    With(ParserIsKindof(NewParser(pointer_name, ty.display), "Prefix"), LAMBDA k :
    With(ParserLifetime(k.parser, "Prefix"), LAMBDA l5 :
    With(ParserLifetime(l5.parser, "Suffix"), LAMBDA l6 :
    With(ParserIsConst(l6.parser, "Suffix"), LAMBDA c :
    With(IF pointee.base # <<>> /\ pointee.base[1].kind \in {"ObjCId", "ObjCClass"}
         THEN [parser |-> c.parser, logged |-> FALSE]
         ELSE SetInnerPointer(c.parser), LAMBDA ip :
    LET u5 == LifetimeUpdate(s.lifetime, l5.value)
        u6 == LifetimeUpdate(u5.value, l6.value)
    IN [s EXCEPT !.lifetime = u6.value,
                 !.log = @ \o Msg(u5.logged, LifetimeError)
                           \o Msg(u6.logged, LifetimeError)
                           \o Msg(ip.logged, "expected pointer to have star")
                           \o DropMsgs(ip.parser),
                 !.drops = Append(@, ip.parser)])))))

\* TypeKind::ObjCObjectPointer
ArmObjCObjectPointer(attributed_ty, st) ==
    With(PointerAttributes(attributed_ty, st), LAMBDA s1 :
    IF st.ty.inner = <<>>
    THEN Abort("pointer type to have pointee", s1.log, s1.drops)
    ELSE IF ModifiedOf(st.ty.inner[1]) = <<>>
    THEN Abort("attributed type to have modified type", s1.log, s1.drops)
    ELSE
    LET pointee == st.ty.inner[1]
        ty == ModifiedOf(pointee)[1]
    IN
    With(PointeeAttributes(pointee, ty, s1), LAMBDA s2 :
    With(PointerNameAttributes(st.ty.display, pointee, ty, s2), LAMBDA s3 :
    With(TyParse(ty, s3.lifetime), LAMBDA r :
    IF r.panic # "" THEN Abort(r.panic, s3.log \o r.log, s3.drops \o r.drops)
    ELSE PR(TyPointer(s3.nullability, s3.is_const, s3.lifetime, r.ty),
            s3.log \o r.log, s3.drops \o r.drops)))))

\* TypeKind::Typedef
ArmTypedef(attributed_ty, st) ==
    IF st.ty.decl_kind = "None" THEN Abort("typedef declaration", st.log, <<>>)
    ELSE IF st.ty.inner = <<>> THEN Abort("typedef underlying type", st.log, <<>>)
    ELSE
    LET typedef_name == st.ty.decl_name IN
    With(ParserIsKindof(NewParser(st.attributed_name, typedef_name), "Prefix"), LAMBDA k :
    With(ParserIsConst(k.parser, "Prefix"), LAMBDA c1 :
    With(ParserLifetime(c1.parser, "Prefix"), LAMBDA l1 :
    With(ParserIsConst(l1.parser, "Suffix"), LAMBDA c2 :
    With(ParserLifetime(c2.parser, "Suffix"), LAMBDA l2 :
    With(ArmNullability(attributed_ty, st, l2.parser), LAMBDA nn :
    LET u1 == LifetimeUpdate(st.lifetime, l1.value)
        u2 == LifetimeUpdate(u1.value, l2.value)
        log == st.log \o Msg(u1.logged, LifetimeError) \o Msg(u2.logged, LifetimeError)
                      \o Msg(nn.logged, NullabilityError) \o DropMsgs(nn.parser)
        drops == <<nn.parser>>
        is_const == c1.ok \/ c2.ok
        n == IF Len(typedef_name) = 1 THEN typedef_name[1] ELSE ""
    IN IF n \in TypedefPrimitives THEN PR(TyPrimitive(TypedefPrimitive(n)), log, drops)
       ELSE IF n = "Float80" THEN Abort("can't handle 80 bit MacOS float", log, drops)
       ELSE IF n = "Float96" THEN Abort("can't handle 96 bit 68881 float", log, drops)
       ELSE IF n = "dispatch_qos_class_t"
       THEN PR(TyTypeDef(typedef_name, nn.value, u2.value, TyPrimitive("Int"), FALSE),
               log, drops)
       ELSE IF n = "instancetype"
       THEN PR(TyPointer(nn.value, is_const, u2.value, TyOf("Self_")), log, drops)
       ELSE IF st.ty.decl_kind = "TemplateTypeParameter"
       THEN PR(TyPointer(nn.value, is_const, u2.value, TyGenericParam(typedef_name)),
               log, drops)
       ELSE With(TyParse(st.ty.inner[1], "Unspecified"), LAMBDA to :
            LET is_cf == IsInnerCfType(to.ty, typedef_name, st.ty.bridged)
            IN IF to.panic # "" THEN Abort(to.panic, log \o to.log, drops \o to.drops)
               ELSE PR(TyTypeDef(ReplaceTypedefName(typedef_name, is_cf), nn.value,
                                 u2.value, to.ty, is_cf),
                       log \o to.log, drops \o to.drops))))))))

\* TypeKind::FunctionPrototype | TypeKind::FunctionNoPrototype
ArmFunction(attributed_ty, st) ==
    IF st.ty.call_conv # "Cdecl" THEN Abort("fn calling convention is C", st.log, <<>>)
    ELSE With(ParseAll(st.ty.args, NoneParsed(st.log)), LAMBDA arguments :
         IF arguments.panic # ""
         THEN Abort(arguments.panic, arguments.log, arguments.drops)
         ELSE IF st.ty.inner = <<>>
         THEN Abort("fn type to have result type", arguments.log, arguments.drops)
         ELSE With(TyParse(st.ty.inner[1], "Unspecified"), LAMBDA r :
              IF r.panic # ""
              THEN Abort(r.panic, arguments.log \o r.log, arguments.drops \o r.drops)
              ELSE PR([TyOf("Fn") EXCEPT
                         !.variadic = st.ty.kind = "FunctionPrototype" /\ st.ty.variadic,
                         !.no_escape = st.no_escape, !.args = arguments.tys,
                         !.inner = <<r.ty>>],
                      arguments.log \o r.log, arguments.drops \o r.drops)))

\* TypeKind::IncompleteArray
ArmIncompleteArray(attributed_ty, st) ==
    With(SetIncompleteArray(NewParser(st.attributed_name, st.name)), LAMBDA a :
    IF a.panicked THEN Abort("array to end with []", st.log, <<>>)
    ELSE
    With(ParserIsConst(a.parser, "Suffix"), LAMBDA c :
    With(ParserLifetime(c.parser, "Suffix"), LAMBDA l :
    With(ArmNullability(attributed_ty, st, l.parser), LAMBDA nn :
    LET u == LifetimeUpdate(st.lifetime, l.value)
        log == st.log \o Msg(u.logged, LifetimeError) \o Msg(nn.logged, NullabilityError)
    IN IF st.ty.inner = <<>>
       THEN Abort("incomplete array to have element type", log, <<>>)
       ELSE With(TyParse(st.ty.inner[1], u.value), LAMBDA r :
            IF r.panic # "" THEN Abort(r.panic, log \o r.log, r.drops)
            ELSE PR([TyOf("IncompleteArray") EXCEPT !.nullability = nn.value,
                           !.is_const = GetIsConst(c.ok, st.ty), !.inner = <<r.ty>>],
                    log \o r.log \o DropMsgs(nn.parser),
                    r.drops \o <<nn.parser>>))))))

\* TypeKind::ConstantArray
ArmConstantArray(attributed_ty, st) ==
    With(SetConstantArray(NewParser(st.attributed_name, st.name)), LAMBDA a :
    IF a.panicked THEN Abort("array to contain [", st.log, <<>>)
    ELSE
    With(ParserIsConst(a.parser, "Suffix"), LAMBDA c :
    With(ArmNullability(attributed_ty, st, c.parser), LAMBDA nn :
    LET log == st.log \o Msg(nn.logged, NullabilityError)
    IN IF st.ty.inner = <<>> THEN Abort("array to have element type", log, <<>>)
       ELSE With(TyParse(st.ty.inner[1], st.lifetime), LAMBDA r :
            IF r.panic # "" THEN Abort(r.panic, log \o r.log, r.drops)
            ELSE PR([TyOf("Array") EXCEPT !.inner = <<r.ty>>, !.n = st.ty.size],
                    log \o r.log \o DropMsgs(nn.parser),
                    r.drops \o <<nn.parser>>)))))

\* The match on ty.get_kind(), after the loop.
Dispatch(attributed_ty, st) ==
    LET kind == st.ty.kind IN
    IF st.vector # <<>> THEN PR(st.vector[1], st.log, <<>>)
    ELSE IF st.panic # "" THEN Abort(st.panic, st.log, <<>>)
    ELSE IF kind \in PrimitiveKinds THEN PR(TyPrimitive(KindPrimitive(kind)), st.log, <<>>)
    ELSE IF kind = "Record" THEN ArmRecord(attributed_ty, st)
    ELSE IF kind = "Enum" THEN ArmEnum(attributed_ty, st)
    ELSE IF kind = "ObjCId" THEN ArmObjCId(attributed_ty, st)
    ELSE IF kind = "ObjCClass" THEN ArmObjCClass(attributed_ty, st)
    ELSE IF kind = "ObjCSel" THEN ArmObjCSel(attributed_ty, st)
    ELSE IF kind = "ObjCInterface" THEN ArmObjCInterface(attributed_ty, st)
    ELSE IF kind = "ObjCObject" THEN ArmObjCObject(attributed_ty, st)
    ELSE IF kind = "Pointer" THEN ArmPointer(attributed_ty, st)
    ELSE IF kind = "BlockPointer" THEN ArmBlockPointer(attributed_ty, st)
    ELSE IF kind = "ObjCObjectPointer" THEN ArmObjCObjectPointer(attributed_ty, st)
    ELSE IF kind = "Typedef" THEN ArmTypedef(attributed_ty, st)
    ELSE IF kind \in FunctionKinds THEN ArmFunction(attributed_ty, st)
    ELSE IF kind = "IncompleteArray" THEN ArmIncompleteArray(attributed_ty, st)
    ELSE IF kind = "ConstantArray" THEN ArmConstantArray(attributed_ty, st)
    ELSE PR(TyGenericParam(<<"Unknown">>), st.log \o <<"unknown type kind">>, <<>>)

(***************************************************************************)
(* One call of Ty::parse: the loop one iteration at a time, then the match.*)
(***************************************************************************)
\* The tokens an attributed spelling adds to the canonical spelling.
SupportedTokens ==
    {Const, Kindof, NullableResult}
        \cup {LifetimeNeedle(l) : l \in SetLifetimes}
        \cup {NullabilityNeedle(n) : n \in {"Nullable", "NonNull", "Unspecified"}}

\* Tokens written before (after) the canonical spelling, each with the white
\* space that separates it.
RECURSIVE PrefixText(_)
PrefixText(tokens) ==
    IF tokens = <<>> THEN <<>> ELSE Head(tokens) \o <<" ">> \o PrefixText(Tail(tokens))
RECURSIVE SuffixText(_)
SuffixText(tokens) ==
    IF tokens = <<>> THEN <<>> ELSE <<" ">> \o Head(tokens) \o SuffixText(Tail(tokens))

\* get_nullability() of a type spelled with these tokens (_Nullable_result
\* is not one of clang::Nullability).
RECURSIVE SpelledNullability(_)
SpelledNullability(tokens) ==
    IF tokens = <<>> THEN "None"
    ELSE LET last == tokens[Len(tokens)] IN
         IF last = NullabilityNeedle("Nullable") THEN "Nullable"
         ELSE IF last = NullabilityNeedle("NonNull") THEN "NonNull"
         ELSE IF last = NullabilityNeedle("Unspecified") THEN "Unspecified"
         ELSE SpelledNullability(SubSeq(tokens, 1, Len(tokens) - 1))

\* Canonical types, one of each kind that makes an AttributeParser.  head and
\* tail are the canonical spelling around the place of the suffix tokens.
IntType == CT("Int", <<"int">>)
VoidType == CT("Void", <<"void">>)
PointerTo(pointee, display) == [CT("Pointer", display) EXCEPT !.inner = <<pointee>>]
IntPointer == PointerTo(IntType, <<"int", " ", "*">>)
VoidPointer == PointerTo(VoidType, <<"void", " ", "*">>)
FnType(display, arguments, result_type) ==
    [CT("FunctionPrototype", display) EXCEPT !.args = arguments, !.inner = <<result_type>>]
VoidFn == FnType(<<"void", " ", "(", "void", ")">>, <<>>, VoidType)
Interface(name) ==
    [CT("ObjCInterface", name) EXCEPT !.decl_name = name, !.decl_kind = "ObjCInterfaceDecl"]
Record(name, bridged) ==
    [CT("Record", <<"struct", " ">> \o name) EXCEPT
        !.decl_name = name, !.decl_kind = "StructDecl", !.bridged = bridged]
Typedef(name, to, bridged) ==
    [CT("Typedef", name) EXCEPT !.decl_name = name, !.decl_kind = "TypedefDecl",
                                !.inner = <<to>>, !.bridged = bridged]
Shape(ty, head, tail) == [ty |-> ty, head |-> head, tail |-> tail]
Shapes ==
    {Shape(CT("ObjCId", <<"id">>), <<"id">>, <<>>),
     Shape(CT("ObjCClass", <<"Class">>), <<"Class">>, <<>>),
     Shape(CT("ObjCSel", <<"SEL">>), <<"SEL">>, <<>>),
     Shape(IntPointer, IntPointer.display, <<>>),
     Shape([CT("BlockPointer", <<"void", " ", "(", "^", ")", "(", "void", ")">>)
               EXCEPT !.inner = <<VoidFn>>],
           <<"void", " ", "(", "^">>, <<")", "(", "void", ")">>),
     Shape([CT("ObjCObjectPointer", <<"NSString", " ", "*">>)
               EXCEPT !.inner = <<Interface(<<"NSString">>)>>],
           <<"NSString", " ", "*">>, <<>>),
     Shape(Typedef(<<"CFString", "Ref">>,
                   PointerTo(Record(<<"__CFString">>, TRUE),
                             <<"struct", " ", "__CFString", " ", "*">>), FALSE),
           <<"CFString", "Ref">>, <<>>),
     Shape([CT("IncompleteArray", <<"int", " ", "*", "[", "]">>)
               EXCEPT !.inner = <<IntPointer>>],
           <<"int", " ", "*">>, <<"[", "]">>),
     Shape([CT("ConstantArray", <<"int", "[", "2", "]">>)
               EXCEPT !.inner = <<IntType>>, !.size = 2],
           <<"int">>, <<"[", "2", "]">>)}

\* The type spelled with prefix and suffix tokens around a canonical type:
\* an Attributed type whose modified type is the canonical one.
Spelled(shape, prefix, suffix) ==
    IF prefix = <<>> /\ suffix = <<>> THEN shape.ty
    ELSE [CT("Attributed",
             PrefixText(prefix) \o shape.head \o SuffixText(suffix) \o shape.tail)
             EXCEPT !.inner = <<shape.ty>>,
                    !.nullability = SpelledNullability(prefix \o suffix)]

\* The ways of writing at most MaxAttrs tokens around a canonical spelling:
\* at most one of them before it.
TokenPlacings ==
    {<<<<>>, t>> : t \in StringsUpTo(SupportedTokens, MaxAttrs)}
        \cup {<<SubSeq(t, 1, 1), Tail(t)>> :
                 t \in StringsUpTo(SupportedTokens, MaxAttrs) \ {<<>>}}
SpelledInputs ==
    {Spelled(shape, placing[1], placing[2]) : shape \in Shapes, placing \in TokenPlacings}

\* Types under an Unexposed type, whose spelling starts with a macro.
Macros == {<<"NS_RETURNS_RETAINED">>, <<"NS_RETURNS_NOT_RETAINED">>, <<"NS_NOESCAPE">>,
           <<"NS_SWIFT_UI_ACTOR">>, <<"NS_REFINED_FOR_SWIFT">>,
           <<"API_AVAILABLE", "(", "macos", ")">>, <<"API_AVAILABLE">>,
           <<"NS_UNKNOWN_MACRO">>,
           <<"NS_SWIFT_NONISOLATED">>, <<"NS_RETURNS_INNER_POINTER">>,
           <<"API_UNAVAILABLE", "(", "macos", ")">>,
           <<"API_DEPRECATED", "(", "macos", "(", "10.0", ",", "10.5", ")", ")">>,
           <<"API_DEPRECATED_WITH_REPLACEMENT", "(", "macos", ")">>,
           <<"NS_SWIFT_NAME", "(", "replacementIndex", ")">>}
Unexposed(macro, ty) ==
    [CT("Unexposed", macro \o <<" ">> \o ty.display) EXCEPT
        !.inner = <<ty>>, !.nullability = ty.nullability]
UnexposedInputs ==
    {Unexposed(macro, Spelled(shape, <<>>, suffix)) :
        macro \in Macros, shape \in Shapes,
        suffix \in {<<>>, <<NullabilityNeedle("NonNull")>>, <<LifetimeNeedle("Weak")>>}}
    \cup {[CT("Unexposed", <<"NS_RETURNS_RETAINED", " ", "id">>) EXCEPT
              !.base = <<CT("ObjCId", <<"id">>)>>]}

\* Two macros stacked at the start of a spelling: clang wraps the type once
\* for each macro.
StackedMacros ==
    {<<"NS_RETURNS_RETAINED">>, <<"NS_RETURNS_NOT_RETAINED">>, <<"NS_NOESCAPE">>,
     <<"NS_SWIFT_UI_ACTOR">>, <<"API_AVAILABLE", "(", "macos", ")">>}
StackedInputs ==
    {Unexposed(first, Unexposed(second, Spelled(shape, <<>>, suffix))) :
        first \in StackedMacros, second \in StackedMacros,
        shape \in {sh \in Shapes : sh.ty.kind \in {"ObjCId", "ObjCObjectPointer",
                                                   "BlockPointer"}},
        suffix \in {<<>>, <<NullabilityNeedle("NonNull")>>}}

\* ObjCObject types: a base with type arguments and protocols.
ObjCObject(display, base_ty, arguments, protocols) ==
    [CT("ObjCObject", display) EXCEPT
        !.base = <<base_ty>>, !.args = arguments, !.protocols = protocols]
IdType == CT("ObjCId", <<"id">>)
ObjectInputs ==
    {ObjCObject(<<"NSArray", "<", "id", ">", "<", "NSCopying", ">">>,
                Interface(<<"NSArray">>), arguments, protocols) :
        arguments \in {<<>>, <<IdType>>}, protocols \in {<<>>, <<<<"NSCopying">>>>}}
    \cup {ObjCObject(<<"id", "<", "NSObject", ">">>, IdType, arguments, <<<<"NSObject">>>>) :
              arguments \in {<<>>, <<IdType>>}}
    \cup {ObjCObject(<<"Class", "<", "NSCopying", ">">>, CT("ObjCClass", <<"Class">>),
                     arguments, <<<<"NSCopying">>>>) : arguments \in {<<>>, <<IdType>>}}
    \cup {ObjCObject(<<"SEL">>, CT("ObjCSel", <<"SEL">>), <<>>, <<>>)}
    \cup {[Interface(<<"NSArray">>) EXCEPT !.args = arguments, !.protocols = protocols] :
              arguments \in {<<>>, <<IdType>>}, protocols \in {<<>>, <<<<"NSCopying">>>>}}
    \cup {Interface(<<"Protocol">>)}

\* Pointers to blocks and functions, functions, arrays: well formed and not.
VariadicFn == [FnType(<<"void", " ", "(", "int", ",", "...", ")">>, <<IntType>>, VoidType)
                  EXCEPT !.variadic = TRUE]
StdcallFn == [VoidFn EXCEPT !.call_conv = "X86StdCall"]
BlockOf(pointee) ==
    [CT("BlockPointer", <<"void", " ", "(", "^", ")", "(", "void", ")">>)
        EXCEPT !.inner = <<pointee>>]
ShapeInputs ==
    {BlockOf(pointee) : pointee \in {VoidFn, VariadicFn, StdcallFn, IntType}}
    \cup {VoidFn, VariadicFn, StdcallFn}
    \cup {PointerTo(VoidFn, <<"void", " ", "(", "*", ")", "(", "void", ")">>),
          PointerTo(VoidFn, <<"fn_t">>),
          [CT("BlockPointer", <<"block_t">>) EXCEPT !.inner = <<VoidFn>>]}
    \cup {[CT("IncompleteArray", display) EXCEPT !.inner = <<IntType>>] :
              display \in {<<"int", "[", "]">>, <<"int_array">>}}
    \cup {[CT("ConstantArray", display) EXCEPT !.inner = <<IntType>>, !.size = 2] :
              display \in {<<"int", "[", "2", "]">>, <<"int_array">>}}
    \cup {[CT("Unexposed", <<"NS_NOESCAPE", " ", "(", "id">>) EXCEPT !.inner = <<IdType>>]}
    \cup {[CT("Attributed", <<"id", " ", "_Nonnull">>) EXCEPT !.nullability = "NonNull"]}
    \cup {CT("Vector", <<"simd_float4">>)}
    \cup {[CT("Record", <<"struct", " ", "Pair">>) EXCEPT
              !.decl_name = <<"Pair">>, !.decl_kind = "StructDecl", !.args = <<IntType, field>>] :
              field \in {CT("Float", <<"float">>), StdcallFn}}
    \cup {[CT("Enum", <<"enum", " ", "Kind">>) EXCEPT
              !.decl_name = <<"Kind">>, !.decl_kind = "EnumDecl", !.inner = <<IntType>>]}

\* Typedefs: the names Ty::parse knows, and typedefs of every target that
\* is_inner_cf_type tells apart, bridged or not, of a known CF name or not.
StructPointer(bridged) ==
    PointerTo(Record(<<"__Opaque">>, bridged), <<"struct", " ", "__Opaque", " ", "*">>)
InnerTypedefs ==
    {Typedef(<<"CFType", "Ref">>, VoidPointer, TRUE), Typedef(<<"Alias">>, IntPointer, TRUE),
     Typedef(<<"NSInteger">>, CT("Long", <<"long">>), FALSE),
     Typedef(<<"instancetype">>, IdType, FALSE)}
TypedefTargets ==
    {StructPointer(TRUE), StructPointer(FALSE), VoidPointer, IntPointer, IntType,
     Record(<<"__Opaque">>, TRUE),
     PointerTo(Typedef(<<"Opaque">>, Record(<<"__Opaque">>, TRUE), FALSE),
               <<"Opaque", " ", "*">>),
     [CT("Attributed", <<"void", " ", "*", " ", "_Nonnull">>) EXCEPT
         !.inner = <<VoidPointer>>, !.nullability = "NonNull"]}
        \cup InnerTypedefs
        \cup {Typedef(<<"Outer">>, inner, FALSE) : inner \in InnerTypedefs}
TypedefInputs ==
    {Typedef(name, to, bridged) :
        name \in {<<"CFString", "Ref">>, <<"MyObject", "Ref">>, <<"Handle">>},
        to \in TypedefTargets, bridged \in BOOLEAN}
    \cup {Typedef(<<name>>, IntType, FALSE) :
              name \in {"BOOL", "NSUInteger", "size_t", "Float80", "Float96",
                        "dispatch_qos_class_t", "instancetype"}}
    \cup {[Typedef(<<"ObjectType">>, IdType, FALSE) EXCEPT
              !.decl_kind = "TemplateTypeParameter"]}

\* The incomplete array "const char * _Nonnull  _Nonnull[]", with the two
\* canonical spellings "const char *[]" and "const char * _Nonnull[]".
DoubledArray(canonical) ==
    [CT("Attributed", <<"const", " ", "char", " ", "*", " ", "_Nonnull", " ", " ",
                         "_Nonnull", "[", "]">>) EXCEPT
        !.nullability = "NonNull",
        !.inner = <<[CT("IncompleteArray", canonical) EXCEPT
                        !.inner = <<PointerTo([CT("CharS", <<"const", " ", "char">>)
                                                  EXCEPT !.is_const = TRUE],
                                              <<"const", " ", "char", " ", "*">>)>>]>>]
DoubledInputs ==
    {DoubledArray(<<"const", " ", "char", " ", "*", "[", "]">>),
     DoubledArray(<<"const", " ", "char", " ", "*", " ", "_Nonnull", "[", "]">>)}

\* Vector types: the spelling clang gives an ext_vector_type, alone and with
\* a second attribute, a const qualifier, or the attribute written first.
ExtVectorAttribute(size) ==
    <<"__attribute__", "(", "(", "ext_vector_type", "(", size, ")", ")", ")">>
AlignedAttribute == <<"__attribute__", "(", "(", "aligned", "(", "8", ")", ")", ")">>
ExtVectorSpellings ==
    UNION {{primitive \o <<" ">> \o ExtVectorAttribute(size),
            ExtVectorAttribute(size) \o <<" ">> \o primitive,
            <<"const", " ">> \o primitive \o <<" ">> \o ExtVectorAttribute(size),
            primitive \o <<" ">> \o AlignedAttribute \o <<" ">> \o ExtVectorAttribute(size),
            primitive \o <<" ">> \o ExtVectorAttribute(size) \o <<" ">> \o AlignedAttribute} :
           primitive \in {<<"int">>, <<"float">>, <<"unsigned", " ", "int">>},
           size \in {"2", "4"}}
ExtVectorInputs ==
    {CT("ExtVector", display) : display \in ExtVectorSpellings}
    \cup {Typedef(<<"simd_int4">>, CT("ExtVector", display), FALSE) :
             display \in ExtVectorSpellings}

ParseInputs ==
    SpelledInputs \cup UnexposedInputs \cup ObjectInputs \cup ShapeInputs
        \cup TypedefInputs \cup DoubledInputs \cup StackedInputs \cup ExtVectorInputs

\* The lifetime a caller hands to Ty::parse.
InheritedLifetimes == {"Unspecified", "Strong", "Weak"}

\* One iteration of the loop over Unexposed and Attributed types.
TpPeel ==
    /\ tp_pc = "loop"
    /\ Peeling(tp_st)
    /\ tp_st' = PeelStep(tp_st)
    /\ UNCHANGED <<tp_pc, tp_input, tp_lifetime, tp_result>>
    /\ UNCHANGED not_tp

\* The match on the kind of the type the loop ended with, or the panic of
\* the loop.
TpDispatch ==
    /\ tp_pc = "loop"
    /\ ~Peeling(tp_st)
    /\ tp_result' = Dispatch(tp_input, tp_st)
    /\ tp_pc' = IF tp_result'.panic # "" THEN "panicked" ELSE "done"
    /\ UNCHANGED <<tp_input, tp_lifetime, tp_st>>
    /\ UNCHANGED not_tp

InitParse ==
    /\ tp_pc = "loop"
    /\ tp_input \in ParseInputs
    /\ tp_lifetime \in InheritedLifetimes
    /\ tp_st = PeelStart(tp_input, tp_lifetime)
    /\ tp_result = "none"
    /\ DrvIdle /\ LtIdle /\ ApIdle /\ TfIdle /\ MnIdle /\ RestIdle

NextParse == TpPeel \/ TpDispatch

SpecParse == InitParse /\ [][NextParse]_vars

(***************************************************************************)
(* Methods of a parsed Ty: the fixes of the global analysis and the        *)
(* renderings of a method's return type.                                   *)
(***************************************************************************)
\* str::contains
Contains(s, needle) ==
    \E i \in 0..(Len(s) - Len(needle)) : SubSeq(s, i + 1, i + Len(needle)) = needle

\* Ty::try_fix_related_result_type that rewrites every pointee.
TryFixRelatedResultTypeAnyPointee(self) ==
    IF self.tag = "Pointer"
    THEN [ty |-> [self EXCEPT !.inner = <<TyOf("Self_")>>],
          warned |-> FALSE, panicked |-> FALSE]
    ELSE [ty |-> self, warned |-> FALSE, panicked |-> TRUE]

\* Ty::try_fix_related_result_type: the type afterwards, whether it warned
\* and whether it panicked.
TryFixRelatedResultType(self) ==
    IF self.tag = "Pointer"
    THEN LET pointee == self.inner[1] IN
         IF pointee.tag = "AnyObject"
         THEN IF pointee.protocols # <<>>
              THEN [ty |-> self, warned |-> TRUE, panicked |-> FALSE]
              ELSE [ty |-> [self EXCEPT !.inner = <<TyOf("Self_")>>],
                    warned |-> FALSE, panicked |-> FALSE]
         ELSE [ty |-> self, warned |-> FALSE, panicked |-> FALSE]
    ELSE [ty |-> self, warned |-> FALSE, panicked |-> TRUE]

\* Ty::fix_fn_first_argument_cf_nullability without the names it never marks.
FixFnFirstArgumentCfNullabilityNoBlockList(self, fn_name) ==
    IF self.tag = "TypeDef" /\ self.nullability = "Unspecified" /\ self.is_cf
    THEN LET stripped == StripSuffix(self.name, <<"Ref">>)
             type_name == IF stripped.some THEN stripped.val ELSE self.name
         IN IF Contains(fn_name, type_name)
            THEN [self EXCEPT !.nullability = "NonNull"]
            ELSE self
    ELSE self

\* Ty::fix_fn_first_argument_cf_nullability
FixFnFirstArgumentCfNullability(self, fn_name) ==
    IF self.tag = "TypeDef" /\ self.nullability = "Unspecified" /\ self.is_cf
    THEN LET stripped == StripSuffix(self.name, <<"Ref">>)
             type_name == IF stripped.some THEN stripped.val ELSE self.name
         IN IF Contains(fn_name, type_name)
               /\ type_name \notin {<<"ODSession">>, <<"CFAllocator">>}
            THEN [self EXCEPT !.nullability = "NonNull"]
            ELSE self
    ELSE self

\* The step of the global analysis if it looked at every argument.
FixFnArgumentsAll(arguments, fn_name) ==
    [i \in 1..Len(arguments) |-> FixFnFirstArgumentCfNullability(arguments[i], fn_name)]

\* The second step of the global analysis, on the arguments of one function:
\* the first argument is the one that is looked at.
FixFnArguments(arguments, fn_name) ==
    IF arguments = <<>> THEN arguments
    ELSE [arguments EXCEPT ![1] = FixFnFirstArgumentCfNullability(@, fn_name)]

\* Ty::inner_typedef_is_object_like that goes through every pointer.
RECURSIVE InnerTypedefIsObjectLikeAnyPointer(_, _)
InnerTypedefIsObjectLikeAnyPointer(self, in_pointer) ==
    IF self.tag \in {"Class", "GenericParam", "AnyObject", "AnyProtocol", "AnyClass",
                     "Self_"}
    THEN TRUE
    ELSE IF self.tag \in {"Pointer", "TypeDef"}
    THEN InnerTypedefIsObjectLikeAnyPointer(self.inner[1], TRUE)
    ELSE FALSE

\* Ty::inner_typedef_is_object_like
RECURSIVE InnerTypedefIsObjectLike(_, _)
InnerTypedefIsObjectLike(self, in_pointer) ==
    IF self.tag \in {"Class", "GenericParam", "AnyObject", "AnyProtocol", "AnyClass",
                     "Self_"}
    THEN TRUE
    ELSE IF self.tag = "Pointer" /\ ~in_pointer
    THEN InnerTypedefIsObjectLike(self.inner[1], TRUE)
    ELSE IF self.tag = "TypeDef"
    THEN InnerTypedefIsObjectLike(self.inner[1], in_pointer)
    ELSE FALSE

\* Ty::is_static_object that knows no static object.
IsStaticObjectNever(self) == FALSE

\* Ty::is_static_object
RECURSIVE IsStaticObject(_)
IsStaticObject(self) ==
    IF self.tag = "AnyClass" THEN TRUE
    ELSE IF self.tag = "TypeDef" THEN IsStaticObject(self.inner[1])
    ELSE FALSE

\* Ty::is_object_like
IsObjectLike(self) ==
    IF self.tag \in {"Class", "GenericParam", "AnyObject", "AnyProtocol", "AnyClass",
                     "Self_"}
    THEN TRUE
    ELSE IF self.tag = "TypeDef" THEN InnerTypedefIsObjectLike(self.inner[1], FALSE)
    ELSE FALSE

\* What a rendering writes: the wrapper around the name of a type, and the
\* type whose name it is, written with behind_pointer(), id.path() or plain()
\* ("none": no name is written).
Written(wrapper, form, ty) == [wrapper |-> wrapper, form |-> form, ty |-> ty]

\* Ty::fn_return
FnReturn(self) ==
    IF self.tag = "Primitive" /\ self.prim = "Void"
    THEN Written("", "none", self)
    ELSE IF self.tag = "Pointer" /\ IsStaticObject(self.inner[1])
    THEN IF self.nullability = "NonNull"
         THEN Written(" -> &'static {}", "behind_pointer", self.inner[1])
         ELSE Written(" -> Option<&'static {}>", "behind_pointer", self.inner[1])
    ELSE Written(" -> {}", "plain", self)

\* Ty::method_return
MethodReturn(self) ==
    IF /\ self.tag = "Pointer" /\ self.lifetime = "Unspecified"
       /\ IsObjectLike(self.inner[1]) /\ ~IsStaticObject(self.inner[1])
    THEN IF self.nullability = "NonNull"
         THEN Written(" -> Retained<{}>", "behind_pointer", self.inner[1])
         ELSE Written(" -> Option<Retained<{}>>", "behind_pointer", self.inner[1])
    ELSE IF /\ self.tag = "TypeDef" /\ (IsObjectLike(self) \/ self.is_cf)
            /\ ~IsStaticObject(self)
    THEN IF self.nullability = "NonNull"
         THEN Written(" -> Retained<{}>", "path", self)
         ELSE Written(" -> Option<Retained<{}>>", "path", self)
    ELSE IF self.tag = "Primitive" /\ self.prim \in {"C99Bool", "ObjcBool"}
    THEN Written(" -> bool", "none", self)
    ELSE FnReturn(self)

\* Ty::method_return_with_error that never looks at is_const.
MethodReturnWithErrorAnyConst(self) ==
    IF /\ self.tag = "Pointer" /\ self.nullability = "Nullable"
       /\ self.lifetime = "Unspecified" /\ IsStaticObject(self.inner[1])
    THEN [text |-> Written(" -> Result<&'static {}, Retained<NSError>>",
                           "behind_pointer", self.inner[1]), logged |-> FALSE]
    ELSE IF /\ self.tag = "Pointer" /\ self.nullability = "Nullable"
            /\ self.lifetime = "Unspecified" /\ IsObjectLike(self.inner[1])
    THEN [text |-> Written(" -> Result<Retained<{}>, Retained<NSError>>",
                           "behind_pointer", self.inner[1]), logged |-> FALSE]
    ELSE IF /\ self.tag = "TypeDef" /\ self.nullability = "Nullable"
            /\ self.lifetime = "Unspecified" /\ (IsObjectLike(self) \/ self.is_cf)
    THEN [text |-> Written(" -> Result<Retained<{}>, Retained<NSError>>", "path", self),
          logged |-> FALSE]
    ELSE IF self.tag = "Primitive" /\ self.prim = "ObjcBool"
    THEN [text |-> Written(" -> Result<(), Retained<NSError>>", "none", self),
          logged |-> FALSE]
    ELSE [text |-> MethodReturn(self), logged |-> TRUE]

\* Ty::method_return_with_error: what it writes and whether it logged
\* "unknown error result type".
MethodReturnWithError(self) ==
    IF /\ self.tag = "Pointer" /\ self.nullability = "Nullable"
       /\ self.lifetime = "Unspecified" /\ ~self.is_const
       /\ IsStaticObject(self.inner[1])
    THEN [text |-> Written(" -> Result<&'static {}, Retained<NSError>>",
                           "behind_pointer", self.inner[1]), logged |-> FALSE]
    ELSE IF /\ self.tag = "Pointer" /\ self.nullability = "Nullable"
            /\ self.lifetime = "Unspecified" /\ ~self.is_const
            /\ IsObjectLike(self.inner[1])
    THEN [text |-> Written(" -> Result<Retained<{}>, Retained<NSError>>",
                           "behind_pointer", self.inner[1]), logged |-> FALSE]
    ELSE IF /\ self.tag = "TypeDef" /\ self.nullability = "Nullable"
            /\ self.lifetime = "Unspecified" /\ (IsObjectLike(self) \/ self.is_cf)
    THEN [text |-> Written(" -> Result<Retained<{}>, Retained<NSError>>", "path", self),
          logged |-> FALSE]
    ELSE IF self.tag = "Primitive" /\ self.prim = "ObjcBool"
    THEN [text |-> Written(" -> Result<(), Retained<NSError>>", "none", self),
          logged |-> FALSE]
    ELSE [text |-> MethodReturn(self), logged |-> TRUE]

\* Ty::fn_argument
FnArgument(self) ==
    IF /\ self.tag = "Pointer" /\ self.lifetime \in {"Unspecified", "Strong"}
       /\ IsObjectLike(self.inner[1])
    THEN IF self.nullability = "NonNull"
         THEN Written("&{}", "behind_pointer", self.inner[1])
         ELSE Written("Option<&{}>", "behind_pointer", self.inner[1])
    ELSE IF self.tag = "TypeDef" /\ (IsObjectLike(self) \/ self.is_cf)
    THEN IF self.nullability = "NonNull" THEN Written("&{}", "path", self)
         ELSE Written("Option<&{}>", "path", self)
    ELSE IF self.tag = "Pointer" /\ self.inner[1].tag \in {"AnyClass", "Block"}
    THEN IF self.nullability = "NonNull"
         THEN Written("&{}", "behind_pointer", self.inner[1])
         ELSE Written("Option<&{}>", "behind_pointer", self.inner[1])
    ELSE Written("{}", "plain", self)

\* Ty::method_argument that never looks at is_const.
MethodArgumentAnyConst(self) ==
    IF self.tag = "Primitive" /\ self.prim \in {"C99Bool", "ObjcBool"}
    THEN Written("bool", "none", self)
    ELSE IF /\ self.tag = "Pointer" /\ self.lifetime = "Unspecified"
            /\ self.inner[1].tag = "Pointer" /\ self.inner[1].lifetime = "Autoreleasing"
    THEN LET inner == self.inner[1] IN
         IF inner.nullability = "NonNull"
         THEN IF self.nullability = "NonNull"
              THEN Written("&mut Retained<{}>", "behind_pointer", inner.inner[1])
              ELSE Written("Option<&mut Retained<{}>>", "behind_pointer", inner.inner[1])
         ELSE IF self.nullability = "NonNull"
              THEN Written("&mut Option<Retained<{}>>", "behind_pointer", inner.inner[1])
              ELSE Written("Option<&mut Option<Retained<{}>>>", "behind_pointer",
                           inner.inner[1])
    ELSE FnArgument(self)

\* Ty::method_argument
MethodArgument(self) ==
    IF self.tag = "Primitive" /\ self.prim \in {"C99Bool", "ObjcBool"}
    THEN Written("bool", "none", self)
    ELSE IF /\ self.tag = "Pointer" /\ ~self.is_const /\ self.lifetime = "Unspecified"
            /\ self.inner[1].tag = "Pointer" /\ self.inner[1].lifetime = "Autoreleasing"
    THEN LET inner == self.inner[1] IN
         IF inner.nullability = "NonNull"
         THEN IF self.nullability = "NonNull"
              THEN Written("&mut Retained<{}>", "behind_pointer", inner.inner[1])
              ELSE Written("Option<&mut Retained<{}>>", "behind_pointer", inner.inner[1])
         ELSE IF self.nullability = "NonNull"
              THEN Written("&mut Option<Retained<{}>>", "behind_pointer", inner.inner[1])
              ELSE Written("Option<&mut Option<Retained<{}>>>", "behind_pointer",
                           inner.inner[1])
    ELSE FnArgument(self)

\* Ty::argument_is_error_out: the bool returned, or the assertion that
\* failed ("" for none).
ArgumentIsErrorOut(self) ==
    IF /\ self.tag = "Pointer" /\ self.nullability \in {"Nullable", "NonNull"}
       /\ self.lifetime = "Unspecified"
       /\ self.inner[1].tag = "Pointer"
       /\ self.inner[1].inner[1].tag = "Class"
       /\ self.inner[1].inner[1].name = <<"NSError">>
    THEN LET inner == self.inner[1]
             class == inner.inner[1]
             failed == IF self.is_const THEN "expected error not const"
                       ELSE IF inner.nullability # "Nullable"
                       THEN "invalid inner error nullability"
                       ELSE IF inner.is_const THEN "expected inner error not const"
                       ELSE IF class.args # <<>> THEN "invalid error generics"
                       ELSE IF class.protocols # <<>> THEN "invalid error protocols"
                       ELSE IF inner.lifetime # "Autoreleasing"
                       THEN "invalid error lifetime"
                       ELSE ""
         IN [value |-> failed = "", panic |-> failed]
    ELSE [value |-> FALSE, panic |-> ""]

\* Primitive::required_items, the items by name: the Objective-C names, and
\* the names of core::ffi (as_str() starts with "c_", and VaList).
PrimitiveRequiredItems(prim) ==
    CASE prim = "ObjcBool" -> {<<"Bool">>}
      [] prim = "NSInteger" -> {<<"NSInteger">>}
      [] prim = "NSUInteger" -> {<<"NSUInteger">>}
      [] prim = "Imp" -> {<<"Imp">>}
      [] prim = "VaList" -> {<<"VaList">>}
      [] prim = "Void" -> {<<"c_void">>}
      [] prim = "Char" -> {<<"c_char">>}
      [] prim = "Int" -> {<<"c_int">>}
      [] prim = "UInt" -> {<<"c_uint">>}
      [] prim = "Long" -> {<<"c_long">>}
      [] prim = "ULong" -> {<<"c_ulong">>}
      [] prim = "Float" -> {<<"c_float">>}
      [] prim = "Double" -> {<<"c_double">>}
      [] OTHER -> {}

\* The names of a list of ItemRefs, each one's required_items: the id of
\* the declaration is one of them.
ItemRefsRequiredItems(decls) == {decls[i] : i \in DOMAIN decls}

\* Ty::required_items that requires nothing.
RequiredItemsNone(self) == {}

\* Ty::required_items, the items by name.
RECURSIVE RequiredItems(_)
RequiredItems(self) ==
    LET of_all(tys) == UNION {RequiredItems(tys[i]) : i \in DOMAIN tys}
        nonnull == IF self.nullability = "NonNull" THEN {<<"NonNull">>} ELSE {}
    IN CASE self.tag = "Primitive" -> PrimitiveRequiredItems(self.prim)
         [] self.tag = "Class" ->
                ItemRefsRequiredItems(<<self.name>>) \cup of_all(self.args)
                    \cup ItemRefsRequiredItems(self.protocols)
         [] self.tag = "GenericParam" -> {}
         [] self.tag = "AnyObject" ->
                {<<"AnyObject">>} \cup ItemRefsRequiredItems(self.protocols)
         [] self.tag = "AnyProtocol" -> {<<"AnyProtocol">>}
         [] self.tag = "AnyClass" ->
                {<<"AnyClass">>} \cup ItemRefsRequiredItems(self.protocols)
         [] self.tag = "Self_" -> {}
         [] self.tag = "Sel" -> {<<"Sel">>}
         [] self.tag \in {"Pointer", "IncompleteArray"} ->
                of_all(self.inner) \cup nonnull
         [] self.tag = "TypeDef" -> of_all(self.inner) \cup {self.name} \cup nonnull
         [] self.tag \in {"Array", "RustArray"} -> of_all(self.inner)
         [] self.tag = "Enum" -> of_all(self.inner) \cup {self.name}
         [] self.tag = "Struct" -> of_all(self.args) \cup {self.name}
         [] self.tag = "Fn" -> of_all(self.args) \cup of_all(self.inner)
         [] self.tag = "Block" ->
                {<<"Block">>} \cup of_all(self.args) \cup of_all(self.inner)

\* Ty::fn_return_required_items
FnReturnRequiredItems(self) ==
    RequiredItems(self)
        \cup (IF /\ self.tag = "Pointer" /\ self.lifetime = "Unspecified"
                 /\ IsObjectLike(self.inner[1]) /\ ~IsStaticObject(self.inner[1])
              THEN {<<"Retained">>}
              ELSE IF self.tag = "TypeDef" /\ IsObjectLike(self)
                      /\ ~IsStaticObject(self)
              THEN {<<"Retained">>}
              ELSE IF self.tag = "TypeDef" /\ self.is_cf
              THEN {<<"CFRetained">>, <<"NonNull">>}
              ELSE {})

\* The names of items that the wrapper of a rendering writes.
WrapperIdentifiers(wrapper) ==
    (IF wrapper \in {" -> Retained<{}>", " -> Option<Retained<{}>>",
                     " -> Result<&'static {}, Retained<NSError>>",
                     " -> Result<Retained<{}>, Retained<NSError>>",
                     " -> Result<(), Retained<NSError>>", "&mut Retained<{}>",
                     "Option<&mut Retained<{}>>", "&mut Option<Retained<{}>>",
                     "Option<&mut Option<Retained<{}>>>"}
     THEN {<<"Retained">>} ELSE {})
    \cup (IF wrapper \in {" -> Result<&'static {}, Retained<NSError>>",
                          " -> Result<Retained<{}>, Retained<NSError>>",
                          " -> Result<(), Retained<NSError>>"}
          THEN {<<"NSError">>} ELSE {})

\* The names of items that Ty::plain, Ty::behind_pointer and a rendering
\* write: the names of declarations and of the items of objc2, block2 and
\* core, the names of generic parameters and `Self` left out.
RECURSIVE PlainIdentifiers(_), BehindPointerIdentifiers(_), WrittenIdentifiers(_)
PlainIdentifiers(self) ==
    LET plain_all(tys) == UNION {PlainIdentifiers(tys[i]) : i \in DOMAIN tys}
        nonnull == IF self.nullability = "NonNull" THEN {<<"NonNull">>} ELSE {}
    IN CASE self.tag = "Primitive" -> PrimitiveRequiredItems(self.prim)
         [] self.tag = "Sel" -> {<<"Sel">>}
         [] self.tag = "Pointer" /\ self.inner[1].tag = "Fn" ->
                plain_all(self.inner[1].args)
                    \cup WrittenIdentifiers(FnReturn(self.inner[1].inner[1]))
         [] self.tag \in {"Pointer", "IncompleteArray"} /\ self.inner[1].tag # "Fn" ->
                nonnull \cup BehindPointerIdentifiers(self.inner[1])
         [] self.tag = "TypeDef" ->
                IF IsObjectLike(self) \/ self.is_cf THEN nonnull \cup {self.name}
                ELSE {self.name}
         [] self.tag = "Array" -> {<<"ArrayUnknownABI">>} \cup plain_all(self.inner)
         [] self.tag = "RustArray" -> plain_all(self.inner)
         [] self.tag \in {"Struct", "Enum"} -> {self.name}
         [] OTHER -> BehindPointerIdentifiers(self)

BehindPointerIdentifiers(self) ==
    LET plain_all(tys) == UNION {PlainIdentifiers(tys[i]) : i \in DOMAIN tys}
        generic(ty) ==
            IF ty.tag = "Pointer" /\ IsObjectLike(ty.inner[1])
            THEN BehindPointerIdentifiers(ty.inner[1])
            ELSE IF ty.tag = "TypeDef" /\ (IsObjectLike(ty) \/ ty.is_cf)
            THEN {ty.name}
            ELSE BehindPointerIdentifiers(ty)
    IN CASE self.tag = "Class" ->
                {self.name} \cup UNION {generic(self.args[i]) : i \in DOMAIN self.args}
         [] self.tag = "GenericParam" -> {}
         [] self.tag = "AnyObject" ->
                IF self.protocols = <<>> THEN {<<"AnyObject">>}
                ELSE IF Len(self.protocols) = 1
                THEN {<<"ProtocolObject">>, self.protocols[1]}
                ELSE {<<"AnyObject">>}
         [] self.tag = "AnyProtocol" -> {<<"AnyProtocol">>}
         [] self.tag = "AnyClass" -> {<<"AnyClass">>}
         [] self.tag = "Self_" -> {}
         [] self.tag = "TypeDef" ->
                IF self.is_cf /\ self.nullability = "NonNull"
                THEN {<<"NonNull">>, self.name}
                ELSE {self.name}
         [] self.tag = "Fn" -> {}
         [] self.tag = "Block" ->
                {<<"Block">>} \cup plain_all(self.args)
                    \cup WrittenIdentifiers(FnReturn(self.inner[1]))
         [] OTHER -> PlainIdentifiers(self)

WrittenIdentifiers(text) ==
    WrapperIdentifiers(text.wrapper)
        \cup (CASE text.form = "behind_pointer" -> BehindPointerIdentifiers(text.ty)
                [] text.form = "path" -> {text.ty.name}
                [] text.form = "plain" -> PlainIdentifiers(text.ty)
                [] OTHER -> {})

\* The types a pointer of the inputs points to: the object-like kinds, and
\* some that are not.
PointeeTys ==
    {TyClass(<<"NSString">>, <<>>, <<>>), TyAnyObject(<<>>),
     TyAnyObject(<< <<"NSCopying">> >>), TyAnyClass(<<>>), TyOf("Self_"),
     TyOf("AnyProtocol"), TyGenericParam(<<"ObjectType">>), TyPrimitive("Int"),
     TyPrimitive("Void"), [TyOf("Block") EXCEPT !.inner = <<TyPrimitive("Void")>>],
     [TyOf("Array") EXCEPT !.inner = <<TyPrimitive("Int")>>, !.n = 4],
     [TyOf("Struct") EXCEPT !.name = <<"__CFString">>, !.is_bridged = TRUE]}

\* The typedefs of the inputs: [name, to, is_cf], is_cf as is_inner_cf_type
\* gives it for a bridged struct behind the pointer.
TypedefTys ==
    LET opaque == TyPointer("Unspecified", FALSE, "Unspecified",
                            [TyOf("Struct") EXCEPT !.name = <<"__CFString">>,
                                                   !.is_bridged = TRUE])
        object == TyPointer("Unspecified", FALSE, "Unspecified",
                            TyClass(<<"NSString">>, <<>>, <<>>))
        class == TyPointer("Unspecified", FALSE, "Unspecified", TyAnyClass(<<>>))
        shapes ==
            {[name |-> n, to |-> opaque, is_cf |-> TRUE] :
                n \in {<<"CFString">>, <<"CFString", "Ref">>, <<"CFData", "Ref">>,
                       <<"CFAllocator", "Ref">>, <<"CFAllocator">>,
                       <<"ODSession", "Ref">>}}
            \cup {[name |-> <<"NSStringAlias">>, to |-> object, is_cf |-> FALSE],
                  [name |-> <<"ClassAlias">>, to |-> class, is_cf |-> FALSE],
                  [name |-> <<"CFIndex">>, to |-> TyPrimitive("Long"), is_cf |-> FALSE]}
    IN {TyTypeDef(d.name, n, l, d.to, d.is_cf) :
           d \in shapes, n \in {"Unspecified", "Nullable", "NonNull"},
           l \in {"Unspecified", "Strong"}}

\* The types a chain of typedefs ends in: a pointer to each object-like
\* kind, a pointer to a type that is no object, a type that is no pointer,
\* and pointers of more than one level, directly and through a typedef.
ChainTargets ==
    LET ptr(ty) == TyPointer("Unspecified", FALSE, "Unspecified", ty)
        class == TyClass(<<"NSString">>, <<>>, <<>>)
    IN {ptr(p) : p \in PointeeTys}
       \cup {class, TyPrimitive("Int"), ptr(ptr(class)), ptr(ptr(TyPrimitive("Int"))),
             ptr(TyTypeDef(<<"NSStringAlias">>, "Unspecified", "Unspecified",
                           ptr(class), FALSE)),
             ptr(TyTypeDef(<<"CFIndex">>, "Unspecified", "Unspecified",
                           TyPrimitive("Long"), FALSE))}

\* The chains of n typedefs and of fewer, one to the next, to a target.
RECURSIVE ChainTys(_)
ChainTys(n) ==
    IF n = 0 THEN {}
    ELSE LET shorter == ChainTys(n - 1) IN
         shorter \cup {TyTypeDef(<<"Alias">>, "Unspecified", "Unspecified", to, FALSE) :
                          to \in ChainTargets \cup shorter}

\* The types a method or a function returns.
ReturnTys ==
    {TyPointer(n, c, l, p) :
        n \in {"Unspecified", "Nullable", "NonNull"}, c \in BOOLEAN,
        l \in {"Unspecified", "Strong"}, p \in PointeeTys}
    \cup TypedefTys
    \cup {TyPrimitive(p) : p \in {"C99Bool", "ObjcBool", "Void", "Int"}}
    \cup {TyOf("Sel")}

\* The out-arguments of a method: pointers to pointers, to NSError and to
\* other types.
ArgumentTys ==
    {TyPointer(n, c, l, TyPointer(inner_n, inner_c, inner_l, p)) :
        n \in {"Unspecified", "Nullable", "NonNull"}, c \in BOOLEAN,
        l \in {"Unspecified", "Strong"},
        inner_n \in {"Unspecified", "Nullable", "NonNull"}, inner_c \in BOOLEAN,
        inner_l \in {"Autoreleasing", "Unspecified"},
        p \in {TyClass(<<"NSError">>, <<>>, <<>>),
               TyClass(<<"NSError">>, <<TyGenericParam(<<"ObjectType">>)>>, <<>>),
               TyClass(<<"NSError">>, <<>>, << <<"NSCopying">> >>),
               TyClass(<<"NSString">>, <<>>, <<>>), TyPrimitive("Int")}}

\* The names of the functions.
FnNames ==
    {<<"CFString", "Create", "Copy">>, <<"CFData", "Get", "Length">>,
     <<"CFAllocator", "Allocate">>, <<"ODSession", "Create">>, <<"NSLog">>}

\* The argument lists of the functions: CF typedefs, at most MaxArgs of them.
RECURSIVE ArgumentLists(_)
ArgumentLists(n) ==
    IF n = 0 THEN {<<>>}
    ELSE LET shorter == ArgumentLists(n - 1) IN
         shorter \cup {Append(args, a) :
                          args \in {x \in shorter : Len(x) = n - 1},
                          a \in {t \in TypedefTys : t.is_cf /\ t.lifetime = "Unspecified"
                                                    /\ t.nullability # "NonNull"}}

\* What tf_out holds after a call.
Called(op, text, logged) ==
    [op |-> op, self |-> tf_self, args |-> tf_args, text |-> text, logged |-> logged]

TfTryFixRelatedResultType ==
    /\ tf_pc = "parsed"
    /\ LET r == TryFixRelatedResultType(tf_self) IN
       /\ tf_self' = r.ty
       /\ tf_out' = Called("try_fix_related_result_type",
                           Written("", "none", tf_self), r.warned)
       /\ tf_pc' = IF r.panicked THEN "panicked" ELSE "done"
    /\ UNCHANGED <<tf_args, tf_name>>
    /\ UNCHANGED not_tf

TfFixFnFirstArgumentCfNullability ==
    /\ tf_pc = "parsed"
    /\ tf_self' = FixFnFirstArgumentCfNullability(tf_self, tf_name)
    /\ tf_out' = Called("fix_fn_first_argument_cf_nullability",
                        Written("", "none", tf_self), FALSE)
    /\ tf_pc' = "done"
    /\ UNCHANGED <<tf_args, tf_name>>
    /\ UNCHANGED not_tf

\* The global analysis of one function.
TfFixFnArguments ==
    /\ tf_pc = "parsed"
    /\ tf_args # <<>>
    /\ tf_args' = FixFnArguments(tf_args, tf_name)
    /\ tf_out' = Called("global_analysis", Written("", "none", tf_self), FALSE)
    /\ tf_pc' = "done"
    /\ UNCHANGED <<tf_self, tf_name>>
    /\ UNCHANGED not_tf

\* is_object_like: tf_out.logged holds the bool returned.
TfIsObjectLike ==
    /\ tf_pc = "parsed"
    /\ tf_out' = Called("is_object_like", Written("", "none", tf_self),
                        IsObjectLike(tf_self))
    /\ tf_pc' = "done"
    /\ UNCHANGED <<tf_self, tf_args, tf_name>>
    /\ UNCHANGED not_tf

TfFnReturn ==
    /\ tf_pc = "parsed"
    /\ tf_out' = Called("fn_return", FnReturn(tf_self), FALSE)
    /\ tf_pc' = "done"
    /\ UNCHANGED <<tf_self, tf_args, tf_name>>
    /\ UNCHANGED not_tf

TfMethodReturn ==
    /\ tf_pc = "parsed"
    /\ tf_out' = Called("method_return", MethodReturn(tf_self), FALSE)
    /\ tf_pc' = "done"
    /\ UNCHANGED <<tf_self, tf_args, tf_name>>
    /\ UNCHANGED not_tf

TfMethodReturnWithError ==
    /\ tf_pc = "parsed"
    /\ LET r == MethodReturnWithError(tf_self) IN
       tf_out' = Called("method_return_with_error", r.text, r.logged)
    /\ tf_pc' = "done"
    /\ UNCHANGED <<tf_self, tf_args, tf_name>>
    /\ UNCHANGED not_tf

\* Option<Nullability>: what a parser found, what get_nullability() reports.
OptionNullabilities == {"None", "Nullable", "NonNull", "Unspecified"}

\* What tf_out holds after a call of one of the nullability helpers: `new`
\* is the parsed nullability, `on_ty` the one Clang reports ("None" where
\* the helper does not ask for it).
CalledNullability(op, new, on_ty, logged) ==
    [op |-> op, self |-> tf_self, args |-> tf_args, text |-> Written("", "none", tf_self),
     logged |-> logged, new |-> new, on_ty |-> on_ty]

\* update_nullability(&mut nullability, new) on the nullability of a type
\* being built.
TfUpdateNullability ==
    /\ tf_pc = "parsed"
    /\ tf_self.tag \in {"Pointer", "TypeDef"}
    /\ \E new \in OptionNullabilities :
          LET u == UpdateNullability(tf_self.nullability, new) IN
          /\ tf_self' = [tf_self EXCEPT !.nullability = u.value]
          /\ tf_out' = CalledNullability("update_nullability", new, "None", u.logged)
    /\ tf_pc' = "done"
    /\ UNCHANGED <<tf_args, tf_name>>
    /\ UNCHANGED not_tf

\* nullability = check_nullability(&attributed_ty, new) as the arms of
\* Ty::parse use it: the value returned is the nullability of the type built.
TfCheckNullability ==
    /\ tf_pc = "parsed"
    /\ tf_self.tag \in {"Pointer", "TypeDef"}
    /\ \E new \in OptionNullabilities, on_ty \in OptionNullabilities :
          LET chk == CheckNullability([VoidPointer EXCEPT !.nullability = on_ty], new) IN
          /\ tf_self' = [tf_self EXCEPT !.nullability = chk.value]
          /\ tf_out' = CalledNullability("check_nullability", new, on_ty, chk.logged)
    /\ tf_pc' = "done"
    /\ UNCHANGED <<tf_args, tf_name>>
    /\ UNCHANGED not_tf

TfFnArgument ==
    /\ tf_pc = "parsed"
    /\ tf_out' = Called("fn_argument", FnArgument(tf_self), FALSE)
    /\ tf_pc' = "done"
    /\ UNCHANGED <<tf_self, tf_args, tf_name>>
    /\ UNCHANGED not_tf

TfMethodArgument ==
    /\ tf_pc = "parsed"
    /\ tf_out' = Called("method_argument", MethodArgument(tf_self), FALSE)
    /\ tf_pc' = "done"
    /\ UNCHANGED <<tf_self, tf_args, tf_name>>
    /\ UNCHANGED not_tf

\* argument_is_error_out: tf_out.logged holds the bool returned.
TfArgumentIsErrorOut ==
    /\ tf_pc = "parsed"
    /\ LET r == ArgumentIsErrorOut(tf_self) IN
       /\ tf_out' = Called("argument_is_error_out", Written(r.panic, "none", tf_self),
                           r.value)
       /\ tf_pc' = IF r.panic # "" THEN "panicked" ELSE "done"
    /\ UNCHANGED <<tf_self, tf_args, tf_name>>
    /\ UNCHANGED not_tf

InitTy ==
    /\ tf_pc = "parsed"
    /\ tf_name \in FnNames
    /\ \/ tf_self \in ReturnTys \cup ArgumentTys \cup ChainTys(MaxChain) /\ tf_args = <<>>
       \/ tf_self = TyPrimitive("Void") /\ tf_args \in ArgumentLists(MaxArgs)
    /\ tf_out = "none"
    /\ DrvIdle /\ LtIdle /\ ApIdle /\ TpIdle /\ MnIdle /\ RestIdle

NextTy ==
    \/ TfTryFixRelatedResultType
    \/ TfFixFnFirstArgumentCfNullability
    \/ TfFixFnArguments
    \/ TfMethodReturn
    \/ TfMethodReturnWithError
    \/ TfUpdateNullability
    \/ TfCheckNullability
    \/ TfFnArgument
    \/ TfMethodArgument
    \/ TfArgumentIsErrorOut
    \/ TfFnReturn
    \/ TfIsObjectLike

SpecTy == InitTy /\ [][NextTy]_vars

(***************************************************************************)
(* main, after the libraries are parsed: the loop that writes each         *)
(* library, then update_test_metadata, update_ci and update_list.  The     *)
(* workspace is the record of what the steps touch; a step that fails      *)
(* returns the error from main (pc "failed"), and nothing in main undoes   *)
(* what the steps before it did.                                           *)
(***************************************************************************)
MaxLibraries == 2
WriteLibraries == 1..MaxLibraries

\* The workspace: the libraries that have a generated directory, a src
\* directory of the crate, a symlink in it, the output of this run; the test
\* metadata, ci.yml and list_data.md ("old": as before the run).
Workspace(generated, src, symlink) ==
    [generated |-> generated, src |-> src, symlink |-> symlink, output |-> {},
     metadata |-> "old", ci |-> "old", list |-> "old"]
Workspaces ==
    {w \in {Workspace(generated, src, symlink) :
                generated \in SUBSET WriteLibraries, src \in SUBSET WriteLibraries,
                symlink \in SUBSET WriteLibraries} : w.symlink \subseteq w.src}

\* The library the loop is at.
library_name == mn_written + 1

\* fs::create_dir_all(generated_dir)?
MnCreateGeneratedDir ==
    /\ mn_pc = "generated_dir"
    /\ \/ mn_disk' = [mn_disk EXCEPT !.generated = @ \cup {library_name}] /\ mn_pc' = "src_dir"
       \/ mn_disk' = mn_disk /\ mn_pc' = "failed"
    /\ UNCHANGED <<mn_before, mn_written>>
    /\ UNCHANGED not_mn

\* fs::create_dir_all(crate_dir.join("src"))?
MnCreateSrcDir ==
    /\ mn_pc = "src_dir"
    /\ \/ mn_disk' = [mn_disk EXCEPT !.src = @ \cup {library_name}] /\ mn_pc' = "remove_symlink"
       \/ mn_disk' = mn_disk /\ mn_pc' = "failed"
    /\ UNCHANGED <<mn_before, mn_written>>
    /\ UNCHANGED not_mn

\* fs::remove_file(&symlink_path), NotFound accepted
MnRemoveSymlink ==
    /\ mn_pc = "remove_symlink"
    /\ \/ mn_disk' = [mn_disk EXCEPT !.symlink = @ \ {library_name}] /\ mn_pc' = "symlink"
       \/ mn_disk' = mn_disk /\ mn_pc' = "failed"
    /\ UNCHANGED <<mn_before, mn_written>>
    /\ UNCHANGED not_mn

\* symlink(..), AlreadyExists accepted
MnSymlink ==
    /\ mn_pc = "symlink"
    /\ \/ mn_disk' = [mn_disk EXCEPT !.symlink = @ \cup {library_name}] /\ mn_pc' = "output"
       \/ mn_disk' = mn_disk /\ mn_pc' = "failed"
    /\ UNCHANGED <<mn_before, mn_written>>
    /\ UNCHANGED not_mn

\* library.output(..)?, and the end of the loop body
MnOutput ==
    /\ mn_pc = "output"
    /\ \/ /\ mn_disk' = [mn_disk EXCEPT !.output = @ \cup {library_name}]
          /\ mn_written' = mn_written + 1
          /\ mn_pc' = IF mn_written + 1 < MaxLibraries THEN "generated_dir" ELSE "metadata"
       \/ /\ mn_pc' = "failed"
          /\ UNCHANGED <<mn_disk, mn_written>>
    /\ UNCHANGED mn_before
    /\ UNCHANGED not_mn

\* update_test_metadata and run_cargo_fmt: fs::write(imports.rs).unwrap(),
\* then Cargo.toml is opened, read and written, each with unwrap().
MnUpdateTestMetadata ==
    /\ mn_pc = "metadata"
    /\ \/ mn_disk' = [mn_disk EXCEPT !.metadata = "new"] /\ mn_pc' = "ci"
       \/ mn_disk' = [mn_disk EXCEPT !.metadata = "imports"] /\ mn_pc' = "failed"
       \/ mn_disk' = mn_disk /\ mn_pc' = "failed"
    /\ UNCHANGED <<mn_before, mn_written>>
    /\ UNCHANGED not_mn

\* update_ci: open and read, set_len(0), seek, the writes.
MnUpdateCi ==
    /\ mn_pc = "ci"
    /\ \/ mn_disk' = [mn_disk EXCEPT !.ci = "new"] /\ mn_pc' = "list"
       \/ mn_disk' = mn_disk /\ mn_pc' = "failed"
       \/ mn_disk' = [mn_disk EXCEPT !.ci = "empty"] /\ mn_pc' = "failed"
       \/ mn_disk' = [mn_disk EXCEPT !.ci = "partial"] /\ mn_pc' = "failed"
    /\ UNCHANGED <<mn_before, mn_written>>
    /\ UNCHANGED not_mn

\* update_list: File::create, the writes.
MnUpdateList ==
    /\ mn_pc = "list"
    /\ \/ mn_disk' = [mn_disk EXCEPT !.list = "new"] /\ mn_pc' = "ok"
       \/ mn_disk' = mn_disk /\ mn_pc' = "failed"
       \/ mn_disk' = [mn_disk EXCEPT !.list = "empty"] /\ mn_pc' = "failed"
       \/ mn_disk' = [mn_disk EXCEPT !.list = "partial"] /\ mn_pc' = "failed"
    /\ UNCHANGED <<mn_before, mn_written>>
    /\ UNCHANGED not_mn

InitMain ==
    /\ mn_pc = "generated_dir"
    /\ mn_before \in Workspaces
    /\ mn_disk = mn_before
    /\ mn_written = 0
    /\ DrvIdle /\ LtIdle /\ ApIdle /\ TpIdle /\ TfIdle /\ RestIdle

NextMain ==
    \/ MnCreateGeneratedDir
    \/ MnCreateSrcDir
    \/ MnRemoveSymlink
    \/ MnSymlink
    \/ MnOutput
    \/ MnUpdateTestMetadata
    \/ MnUpdateCi
    \/ MnUpdateList

SpecMain == InitMain /\ [][NextMain]_vars

(***************************************************************************)
(* CFData (objc2-core-foundation, data.rs).  CFDataCreate, CFDataGetLength *)
(* and CFDataGetBytePtr are Core Foundation's: the object holds a copy of  *)
(* the bytes it was created from, and its byte pointer may be null when    *)
(* its length is zero.                                                     *)
(***************************************************************************)
\* The number of bytes of a slice.
MaxBytes == 3
\* Some values of a u8.
ByteValues == {0, 1, 255}

\* The byte slices of MaxBytes bytes and of fewer.
RECURSIVE ByteSlices(_)
ByteSlices(n) ==
    IF n = 0 THEN {<<>>}
    ELSE LET shorter == ByteSlices(n - 1) IN
         shorter \cup {Append(b, v) : b \in {x \in shorter : Len(x) = n - 1},
                                      v \in ByteValues}

\* CFDataCreate(None, bytes, len)
CFDataCreate(bytes, len) == [bytes |-> SubSeq(bytes, 1, len), length |-> len]

\* CFData::from_bytes
FromBytes(bytes) == CFDataCreate(bytes, Len(bytes))

\* CFData::len
CFDataLen(self) == self.length

\* CFData::is_empty
CFDataIsEmpty(self) == CFDataLen(self) = 0

\* CFData::as_bytes_unchecked that reads every byte pointer as null.
AsBytesUncheckedNull(self, ptr_is_null) == <<>>

\* CFData::as_bytes_unchecked, CFDataGetBytePtr having returned null or
\* the pointer to the bytes.
AsBytesUnchecked(self, ptr_is_null) ==
    IF ~ptr_is_null THEN SubSeq(self.bytes, 1, CFDataLen(self)) ELSE <<>>

\* CFData::to_vec
ToVec(self, ptr_is_null) == AsBytesUnchecked(self, ptr_is_null)

\* What cd_out holds after a call: the usize, the bool or the Vec it gave.
CdCalled(op, len, empty, vec) ==
    [op |-> op, len |-> len, empty |-> empty, vec |-> vec]

\* CFData::from_bytes(bytes); CFDataCreate may give no object, which the
\* expect turns into a panic.
CdFromBytes ==
    /\ cd_pc = "start"
    /\ \/ cd_data' = FromBytes(cd_bytes) /\ cd_pc' = "created"
       \/ cd_data' = cd_data /\ cd_pc' = "panicked"
    /\ cd_out' = CdCalled("from_bytes", <<>>, <<>>, <<>>)
    /\ UNCHANGED cd_bytes
    /\ UNCHANGED not_cd

CdLen ==
    /\ cd_pc = "created"
    /\ cd_out' = CdCalled("len", <<CFDataLen(cd_data)>>, <<>>, <<>>)
    /\ UNCHANGED <<cd_pc, cd_bytes, cd_data>>
    /\ UNCHANGED not_cd

CdIsEmpty ==
    /\ cd_pc = "created"
    /\ cd_out' = CdCalled("is_empty", <<>>, <<CFDataIsEmpty(cd_data)>>, <<>>)
    /\ UNCHANGED <<cd_pc, cd_bytes, cd_data>>
    /\ UNCHANGED not_cd

\* to_vec: the byte pointer may be null only when the length is zero.
CdToVec ==
    /\ cd_pc = "created"
    /\ \E ptr_is_null \in (IF cd_data.length = 0 THEN BOOLEAN ELSE {FALSE}) :
          cd_out' = CdCalled("to_vec", <<>>, <<>>, <<ToVec(cd_data, ptr_is_null)>>)
    /\ UNCHANGED <<cd_pc, cd_bytes, cd_data>>
    /\ UNCHANGED not_cd

InitData ==
    /\ cd_pc = "start"
    /\ cd_bytes \in ByteSlices(MaxBytes)
    /\ cd_data = "none"
    /\ cd_out = "none"
    /\ DrvIdle /\ LtIdle /\ ApIdle /\ TpIdle /\ TfIdle /\ MnIdle
    /\ RcIdle /\ TuIdle /\ CiIdle

NextData == CdFromBytes \/ CdLen \/ CdIsEmpty \/ CdToVec

SpecData == InitData /\ [][NextData]_vars

(***************************************************************************)
(* StrongPtr and WeakPtr (objc2, rc).  One object, the pointers to it      *)
(* counted; the retain count is the runtime's.  The implementations are    *)
(* in rc/strong.rs and rc/weak.rs; what they do is taken from the module   *)
(* documentation and the tests of rc/mod.rs.                               *)
(***************************************************************************)
\* The number of pointers and owed releases alive at one time.
MaxPtrs == 4

\* A retain that does not count.
RetainNothing(count) == count

\* objc_retain: what clone() and a successful load() do to the retain count.
Retain(count) == count + 1

\* objc_release: what drop() does to the retain count.
Release(count) == count - 1

\* A load that hands out the object whatever became of it.
WeakLoadDangling(count) == "object"

\* WeakPtr::load: the object while it is allocated, null afterwards.
WeakLoad(count) == IF count > 0 THEN "object" ELSE "null"

\* The pointers and owed releases alive.
RcAlive == rc_strong + rc_null + rc_weak + rc_pool

\* What rc_out holds after an operation: the pointer it gave, and the
\* retain count and the number of StrongPtrs before it.
RcDone(op, ptr) ==
    [op |-> op, ptr |-> ptr, count |-> rc_count, strong |-> rc_strong]

\* StrongPtr::new(msg_send![class!(NSObject), new])
RcNew ==
    /\ rc_pc = "start"
    /\ rc_pc' = "run"
    /\ rc_count' = 1
    /\ rc_strong' = 1
    /\ rc_out' = RcDone("new", "object")
    /\ UNCHANGED <<rc_null, rc_weak, rc_pool>>
    /\ UNCHANGED not_rc

\* obj.clone()
RcClone ==
    /\ rc_pc = "run" /\ rc_strong > 0 /\ RcAlive < MaxPtrs
    /\ rc_count' = Retain(rc_count)
    /\ rc_strong' = rc_strong + 1
    /\ rc_out' = RcDone("clone", "object")
    /\ UNCHANGED <<rc_pc, rc_null, rc_weak, rc_pool>>
    /\ UNCHANGED not_rc

\* drop(obj) of a StrongPtr to the object
RcDrop ==
    /\ rc_pc = "run" /\ rc_strong > 0
    /\ rc_count' = Release(rc_count)
    /\ rc_strong' = rc_strong - 1
    /\ rc_out' = RcDone("drop", "none")
    /\ UNCHANGED <<rc_pc, rc_null, rc_weak, rc_pool>>
    /\ UNCHANGED not_rc

\* drop of a StrongPtr that holds null
RcDropNull ==
    /\ rc_pc = "run" /\ rc_null > 0
    /\ rc_null' = rc_null - 1
    /\ rc_out' = RcDone("drop_null", "none")
    /\ UNCHANGED <<rc_pc, rc_count, rc_strong, rc_weak, rc_pool>>
    /\ UNCHANGED not_rc

\* obj.weak()
RcWeak ==
    /\ rc_pc = "run" /\ rc_strong > 0 /\ RcAlive < MaxPtrs
    /\ rc_weak' = rc_weak + 1
    /\ rc_out' = RcDone("weak", "none")
    /\ UNCHANGED <<rc_pc, rc_count, rc_strong, rc_null, rc_pool>>
    /\ UNCHANGED not_rc

\* weak.clone()
RcWeakClone ==
    /\ rc_pc = "run" /\ rc_weak > 0 /\ RcAlive < MaxPtrs
    /\ rc_weak' = rc_weak + 1
    /\ rc_out' = RcDone("weak_clone", "none")
    /\ UNCHANGED <<rc_pc, rc_count, rc_strong, rc_null, rc_pool>>
    /\ UNCHANGED not_rc

\* drop(weak)
RcWeakDrop ==
    /\ rc_pc = "run" /\ rc_weak > 0
    /\ rc_weak' = rc_weak - 1
    /\ rc_out' = RcDone("weak_drop", "none")
    /\ UNCHANGED <<rc_pc, rc_count, rc_strong, rc_null, rc_pool>>
    /\ UNCHANGED not_rc

\* weak.load(): a StrongPtr, to the object or null
RcLoad ==
    /\ rc_pc = "run" /\ rc_weak > 0 /\ RcAlive < MaxPtrs
    /\ LET ptr == WeakLoad(rc_count) IN
       /\ rc_count' = IF ptr = "object" THEN Retain(rc_count) ELSE rc_count
       /\ rc_strong' = IF ptr = "object" THEN rc_strong + 1 ELSE rc_strong
       /\ rc_null' = IF ptr = "object" THEN rc_null ELSE rc_null + 1
       /\ rc_out' = RcDone("load", ptr)
    /\ UNCHANGED <<rc_pc, rc_weak, rc_pool>>
    /\ UNCHANGED not_rc

\* obj.autorelease() inside autoreleasepool: the StrongPtr is consumed, the
\* release is owed until the pool ends.
RcAutorelease ==
    /\ rc_pc = "run" /\ rc_strong > 0
    /\ rc_strong' = rc_strong - 1
    /\ rc_pool' = rc_pool + 1
    /\ rc_out' = RcDone("autorelease", "object")
    /\ UNCHANGED <<rc_pc, rc_count, rc_null, rc_weak>>
    /\ UNCHANGED not_rc

\* The end of autoreleasepool: the owed releases are done.
RcPoolEnd ==
    /\ rc_pc = "run" /\ rc_pool > 0
    /\ rc_count' = rc_count - rc_pool
    /\ rc_pool' = 0
    /\ rc_out' = RcDone("pool_end", "none")
    /\ UNCHANGED <<rc_pc, rc_strong, rc_null, rc_weak>>
    /\ UNCHANGED not_rc

InitRc ==
    /\ rc_pc = "start"
    /\ rc_count = 0 /\ rc_strong = 0 /\ rc_null = 0 /\ rc_weak = 0 /\ rc_pool = 0
    /\ rc_out = "none"
    /\ DrvIdle /\ LtIdle /\ ApIdle /\ TpIdle /\ TfIdle /\ MnIdle
    /\ CdIdle /\ TuIdle /\ CiIdle

NextRc ==
    \/ RcNew
    \/ RcClone
    \/ RcDrop
    \/ RcDropNull
    \/ RcWeak
    \/ RcWeakClone
    \/ RcWeakDrop
    \/ RcLoad
    \/ RcAutorelease
    \/ RcPoolEnd

SpecRc == InitRc /\ [][NextRc]_vars

(***************************************************************************)
(* parse_translation_unit (main.rs): the closure given to visit_children,  *)
(* called on every child of the translation unit in order.                 *)
(***************************************************************************)
\* The number of children of a translation unit.
MaxEntities == 3

\* The kinds of entity the closure has an arm for while preprocessing.
PreprocessingKinds == {"InclusionDirective", "MacroExpansion", "MacroDefinition"}

\* The children: [kind, file, own].  `file` is whether the expansion
\* location has a file (Clang-defined macros and the inclusion directives
\* of the modulemap have none), `own` whether an included file belongs to
\* the framework of the library.
Entities ==
    {[kind |-> "InclusionDirective", file |-> f, own |-> o] : f, o \in BOOLEAN}
    \cup {[kind |-> k, file |-> f, own |-> FALSE] :
             k \in {"MacroExpansion", "MacroDefinition"}, f \in BOOLEAN}
    \cup {[kind |-> "ObjCInterfaceDecl", file |-> f, own |-> FALSE] : f \in BOOLEAN}

\* The translation units of MaxEntities children and of fewer.
RECURSIVE TranslationUnits(_)
TranslationUnits(n) ==
    IF n = 0 THEN {<<>>}
    ELSE LET shorter == TranslationUnits(n - 1) IN
         shorter \cup {Append(tu, e) : tu \in {x \in shorter : Len(x) = n - 1},
                                       e \in Entities}

\* The match on entity.get_kind() with the guards dropped.
VisitArmUnguarded(kind, preprocessing) ==
    IF kind \in PreprocessingKinds THEN kind ELSE "_"

\* The match on entity.get_kind(): the arm an entity takes.
VisitArm(kind, preprocessing) ==
    IF kind \in PreprocessingKinds /\ preprocessing THEN kind ELSE "_"

\* The closure, on the next child.  The `_` arm panics on an entity whose
\* expansion location has no file, after it has cleared `preprocessing`.
TuVisit ==
    /\ tu_pc = "visit"
    /\ Len(tu_visits) < Len(tu_entities)
    /\ LET i == Len(tu_visits) + 1
           entity == tu_entities[i]
           arm == VisitArm(entity.kind, tu_preprocessing)
       IN /\ tu_modules' = IF arm = "InclusionDirective" /\ entity.own
                           THEN tu_modules \cup {i} ELSE tu_modules
          /\ tu_macro_invocations' = IF arm = "MacroExpansion"
                                     THEN tu_macro_invocations \cup {i}
                                     ELSE tu_macro_invocations
          /\ tu_preprocessing' = IF arm = "_" THEN FALSE ELSE tu_preprocessing
          /\ tu_stmts' = IF arm = "_" /\ entity.file THEN Append(tu_stmts, i)
                         ELSE tu_stmts
          /\ tu_pc' = IF arm = "_" /\ ~entity.file THEN "panicked" ELSE "visit"
          /\ tu_visits' = Append(tu_visits, [arm |-> arm, before |-> tu_preprocessing])
    /\ UNCHANGED tu_entities
    /\ UNCHANGED not_tu

InitUnit ==
    /\ tu_pc = "visit"
    /\ tu_entities \in TranslationUnits(MaxEntities)
    /\ tu_preprocessing = TRUE
    /\ tu_macro_invocations = {}
    /\ tu_modules = {}
    /\ tu_stmts = <<>>
    /\ tu_visits = <<>>
    /\ DrvIdle /\ LtIdle /\ ApIdle /\ TpIdle /\ TfIdle /\ MnIdle
    /\ CdIdle /\ RcIdle /\ CiIdle

NextUnit == TuVisit

SpecUnit == InitUnit /\ [][NextUnit]_vars

(***************************************************************************)
(* update_ci (main.rs).  The text of ci.yml is a sequence of atoms:        *)
(* "BEGIN" is the needle "BEGIN AUTOMATICALLY GENERATED", "END" the needle *)
(* "  # END AUTOMATICALLY GENERATED", "x" any other text, and what the     *)
(* writer writes: the name of an environment, a package, a newline.        *)
(***************************************************************************)
\* The number of atoms of ci.yml before the first run.
MaxText == 4
\* The number of times update_ci is run on the file.
MaxRuns == 2

\* The texts of n atoms and of fewer.
RECURSIVE Texts(_)
Texts(n) ==
    IF n = 0 THEN {<<>>}
    ELSE LET shorter == Texts(n - 1) IN
         shorter \cup {Append(t, a) : t \in {x \in shorter : Len(x) = n - 1},
                                      a \in {"x", "BEGIN", "END"}}

\* What a library of the configuration is: a crate that is no framework
\* (is_library), a framework for macOS, a framework that GNUstep has.
LibraryKinds == {"library", "macos", "gnustep"}
Configs == [WriteLibraries -> LibraryKinds]

\* library.krate, in the order of the BTreeSet.
Krates ==
    <<" --package=objc2-app-kit", " --package=objc2-foundation",
      " --package=objc2-metal", " --package=objc2-quartz-core">>

\* The environments, with the kind of library the check of each accepts.
Environments ==
    <<[env_name |-> "  FRAMEWORKS_MACOS_15:", check |-> "macos"],
      [env_name |-> "  FRAMEWORKS_GNUSTEP:", check |-> "gnustep"]>>

\* The packages of the libraries from i on that the check accepts.
RECURSIVE Frameworks(_, _, _)
Frameworks(config, check, i) ==
    IF i \notin DOMAIN config THEN <<>>
    ELSE (IF config[i] = check THEN <<Krates[i]>> ELSE <<>>)
             \o Frameworks(config, check, i + 1)

\* fn writer: the line of one environment.
Writer(config, env) ==
    <<env.env_name>> \o Frameworks(config, env.check, 1) \o <<"\n">>

\* The lines of all environments.
RECURSIVE WriterAll(_, _)
WriterAll(config, i) ==
    IF i > Len(Environments) THEN <<>>
    ELSE Writer(config, Environments[i]) \o WriterAll(config, i + 1)

\* update_ci that looks for the end marker in the whole text.
UpdateCiEndAnywhere(text, config) ==
    LET begin == SplitOnce(text, "BEGIN")
        end == SplitOnce(text, "END")
    IN IF ~begin.some THEN [panic |-> "begin section not found in ci.yml", text |-> text]
       ELSE IF ~end.some
       THEN [panic |-> "end section not found in ci.yml", text |-> text]
       ELSE [panic |-> "",
             text |-> begin.before \o <<"BEGIN", "\n">> \o WriterAll(config, 1)
                          \o <<"END">> \o end.after]

\* update_ci without I/O errors: the panic of an expect ("" for none) and
\* the text written.
UpdateCi(text, config) ==
    LET begin == SplitOnce(text, "BEGIN")
        end == SplitOnce(begin.after, "END")
    IN IF ~begin.some THEN [panic |-> "begin section not found in ci.yml", text |-> text]
       ELSE IF ~end.some
       THEN [panic |-> "end section not found in ci.yml", text |-> text]
       ELSE [panic |-> "",
             text |-> begin.before \o <<"BEGIN", "\n">> \o WriterAll(config, 1)
                          \o <<"END">> \o end.after]

\* What ci_runs records of a call.
CiRun(outcome, after) == [before |-> ci_file, after |-> after, result |-> outcome]

\* update_ci: open and read_to_string, the two split_once, set_len(0),
\* seek, the writes.  An I/O error before set_len has taken effect leaves
\* the file as it was; one after it leaves what was written until then.
CiUpdateCi ==
    /\ ci_pc = "run"
    /\ Len(ci_runs) < MaxRuns
    /\ LET r == UpdateCi(ci_file, ci_config) IN
       \/ /\ ci_file' = ci_file
          /\ ci_pc' = "failed"
          /\ ci_runs' = Append(ci_runs, CiRun("err", ci_file))
       \/ /\ r.panic # ""
          /\ ci_file' = ci_file
          /\ ci_pc' = "panicked"
          /\ ci_runs' = Append(ci_runs, CiRun(r.panic, ci_file))
       \/ /\ r.panic = ""
          /\ \E n \in 0..(Len(r.text) - 1) :
                /\ ci_file' = SubSeq(r.text, 1, n)
                /\ ci_runs' = Append(ci_runs, CiRun("err", SubSeq(r.text, 1, n)))
          /\ ci_pc' = "failed"
       \/ /\ r.panic = ""
          /\ ci_file' = r.text
          /\ ci_pc' = "run"
          /\ ci_runs' = Append(ci_runs, CiRun("ok", r.text))
    /\ UNCHANGED ci_config
    /\ UNCHANGED not_ci

InitCi ==
    /\ ci_pc = "run"
    /\ ci_config \in Configs
    /\ ci_file \in Texts(MaxText)
    /\ ci_runs = <<>>
    /\ DrvIdle /\ LtIdle /\ ApIdle /\ TpIdle /\ TfIdle /\ MnIdle
    /\ CdIdle /\ RcIdle /\ TuIdle

NextCi == CiUpdateCi

SpecCi == InitCi /\ [][NextCi]_vars

(***************************************************************************)
(* The claims.                                                             *)
(***************************************************************************)
\* The triples of the platform a configuration key declares.
TriplesOfKey(k) ==
    CASE k = "macos" -> {"arm64-apple-macosx10.12.0"}
      [] k = "ios" -> {"arm64-apple-ios10.0.0"}
      [] k = "maccatalyst" -> {"arm64-apple-ios13.1.0-macabi"}
      [] k = "tvos" -> {"arm64-apple-tvos"}
      [] k = "watchos" -> {"arm64-apple-watchos"}
      [] k = "visionos" -> {"arm64-apple-xros"}

\* The declared key that comes first in the order of preference.
KeyOrder == <<"macos", "ios", "maccatalyst", "tvos", "watchos", "visionos">>
FirstDeclaredKey(d) ==
    KeyOrder[CHOOSE i \in 1..Len(KeyOrder) :
                 KeyOrder[i] \in d /\ \A j \in 1..(i - 1) : KeyOrder[j] \notin d]

PlatformOfKey(k) ==
    CASE k \in {"macos", "maccatalyst"} -> "MacOsX"
      [] k = "ios" -> "IPhoneOs"
      [] k = "tvos" -> "AppleTvOs"
      [] k = "watchos" -> "WatchOs"
      [] k = "visionos" -> "XrOs"

\* C2 as stated: when parse_library returns, with an SDK installed for every
\* declared platform, a triple of every declared platform has been parsed.
C2_EveryDeclaredPlatformParsed ==
    (drv_pc = "returned" /\ \A k \in data : PlatformOfKey(k) \in sdks) =>
        \A k \in data : \E i \in 1..Len(parsed) : parsed[i][1] \in TriplesOfKey(k)

\* C2 amended: when parse_library returns it has parsed exactly one triple,
\* the triple of the declared platform that comes first in the order macOS,
\* iOS, Mac Catalyst, tvOS, watchOS, visionOS.
C2_OnlyPreferredPlatformParsed ==
    drv_pc = "returned" =>
        /\ Len(parsed) = 1
        /\ data # {}
        /\ parsed[1][1] \in TriplesOfKey(FirstDeclaredKey(data))

C2_Witness ==
    drv_pc = "returned" /\ {"macos", "ios", "tvos"} \subseteq data /\ Len(parsed) = 1

\* C4 as stated: Unspecified -> X sets the cell, an update with Unspecified
\* changes and logs nothing, every other update logs an error.
C4_EveryOtherUpdateLogs ==
    \A i \in 1..Len(lt_calls) :
        LET c == lt_calls[i] IN
          /\ (c.old = "Unspecified" /\ c.new # "Unspecified") => c.after = c.new
          /\ c.new = "Unspecified" => (c.after = c.old /\ ~c.logged)
          /\ (c.old # "Unspecified" /\ c.new # "Unspecified") => c.logged

\* C4 amended: Unspecified -> X sets the cell, an update with Unspecified
\* changes and logs nothing, every other update leaves the cell as it is and
\* logs an error, except Strong -> Strong, which logs nothing.
C4_EveryOtherUpdateButStrongStrongLogs ==
    \A i \in 1..Len(lt_calls) :
        LET c == lt_calls[i] IN
          /\ (c.old = "Unspecified" /\ c.new # "Unspecified") =>
                (c.after = c.new /\ ~c.logged)
          /\ c.new = "Unspecified" => (c.after = c.old /\ ~c.logged)
          /\ (c.old # "Unspecified" /\ c.new # "Unspecified") =>
                /\ c.after = c.old
                /\ c.logged <=> ~(c.old = "Strong" /\ c.new = "Strong")

C4_Witness ==
    \E i \in 1..Len(lt_calls) :
        lt_calls[i].old = "Strong" /\ lt_calls[i].new = "Strong" /\ ~lt_calls[i].logged

\* C6 as stated: for every set X, update(X) on a cell holding X logs nothing
\* and leaves X; an update with a different set value is reported.
C6_SameValueSilent ==
    \A i \in 1..Len(lt_calls) :
        LET c == lt_calls[i] IN
          (c.old \in SetLifetimes /\ c.new \in SetLifetimes) =>
              IF c.old = c.new THEN ~c.logged /\ c.after = c.old
              ELSE c.logged

\* C6 amended: update(X) on a cell holding X leaves X; it logs nothing only
\* for X = Strong, and for Unretained, Weak and Autoreleasing it logs an error
\* like an update with a different set value does.
C6_OnlyStrongSameValueSilent ==
    \A i \in 1..Len(lt_calls) :
        LET c == lt_calls[i] IN
          (c.old \in SetLifetimes /\ c.new \in SetLifetimes) =>
              /\ lt_calls[i].after = c.old
              /\ IF c.old = c.new THEN c.logged <=> (c.old # "Strong")
                 ELSE c.logged

C6_Witness ==
    \E i \in 1..Len(lt_calls) :
        lt_calls[i].old = "Weak" /\ lt_calls[i].new = "Weak" /\ lt_calls[i].logged

\* Whether s has the needle at that end, and s without it.
AtEnd(position, s, needle) ==
    /\ Len(needle) <= Len(s)
    /\ \A i \in 1..Len(needle) :
          needle[i] = IF position = "Prefix" THEN s[i]
                      ELSE s[Len(s) - Len(needle) + i]
WithoutEnd(position, s, needle) ==
    IF position = "Prefix" THEN SubSeq(s, Len(needle) + 1, Len(s))
    ELSE SubSeq(s, 1, Len(s) - Len(needle))
\* The places of s where the needle occurs.
Occurrences(needle, s) ==
    {k \in 0..(Len(s) - Len(needle)) : \A i \in 1..Len(needle) : s[k + i] = needle[i]}

\* C7 as stated: strip returns true only if the token is at that end of the
\* attributed name and either the token is not on the canonical name, or it is
\* on both ends of the attributed name and only once on the canonical name.
C7_StripOnlyIfAbsentOrBothEnds ==
    (ap_last.op = "strip" /\ ap_last.ok) =>
        /\ AtEnd(ap_last.position, ap_last.before, ap_last.needle)
        /\ \/ Occurrences(ap_last.needle, ap_parser.expected_name) = {}
           \/ /\ AtEnd("Prefix", ap_last.before, ap_last.needle)
              /\ AtEnd("Suffix", ap_last.before, ap_last.needle)
              /\ Cardinality(Occurrences(ap_last.needle, ap_parser.expected_name)) = 1

\* C7 amended: strip returns true exactly when the token is at that end of the
\* attributed name and either the canonical name does not have it at that same
\* end, or the attributed name has it there twice in a row (it is there again
\* once the first is removed and the rest trimmed); on success one occurrence
\* is removed and the rest trimmed, otherwise the name is left as it is.
C7_StripIffAbsentAtEndOrDoubled ==
    ap_last.op = "strip" =>
        LET pos == ap_last.position
            needle == ap_last.needle
            rest == Trim(WithoutEnd(pos, ap_last.before, needle))
        IN /\ ap_last.ok <=>
                 /\ AtEnd(pos, ap_last.before, needle)
                 /\ \/ ~AtEnd(pos, ap_parser.expected_name, needle)
                    \/ AtEnd(pos, rest, needle)
           /\ ap_parser.name = IF ap_last.ok THEN rest ELSE ap_last.before

\* The doubled case: the canonical name has the token at that end too.
C7_Witness ==
    /\ ap_last.op = "strip" /\ ap_last.ok
    /\ AtEnd(ap_last.position, ap_parser.expected_name, ap_last.needle)
    /\ AtEnd(ap_last.position, ap_parser.name, ap_last.needle)

\* C3: no input type makes Ty::parse abort: every unsupported or inconsistent
\* shape is logged and a fallback value is returned.
C3_ParseNeverAborts == tp_pc # "panicked"

\* C5: once the lifetime being built is not Unspecified (inherited from the
\* caller or set while peeling Unexposed types), the Pointer or TypeDef that
\* Ty::parse produces carries a lifetime that is not Unspecified.
C5_LifetimeNeverRegresses ==
    (tp_pc = "done" /\ tp_result.ty.tag \in {"Pointer", "TypeDef"}
        /\ tp_st.lifetime # "Unspecified")
    => tp_result.ty.lifetime # "Unspecified"

\* Whether every AttributeParser the call dropped had a residue equal to the
\* canonical name.
AllResiduesCanonical ==
    \A i \in 1..Len(tp_result.drops) :
        tp_result.drops[i].name = tp_result.drops[i].expected_name
\* The number of parsers dropped with a residue that is not the canonical
\* name, and the number of times the drop logged.
Mismatches ==
    Cardinality({i \in 1..Len(tp_result.drops) :
                    tp_result.drops[i].name # tp_result.drops[i].expected_name})
DropErrors == Cardinality({i \in 1..Len(tp_result.log) : tp_result.log[i] = DropError})

\* C8 as stated: for every spelling made of the canonical spelling and
\* supported tokens in any order, every AttributeParser ends with a residue
\* equal to the canonical name.
C8_ResidueEqualsCanonical ==
    (tp_pc = "done" /\ tp_input \in SpelledInputs) => AllResiduesCanonical

\* The tokens the arm of a kind strips when one of them is the only token
\* after (before) the canonical spelling.
LifetimeTokens == {LifetimeNeedle(l) : l \in SetLifetimes}
NullabilityTokens == {NullabilityNeedle(n) : n \in {"Nullable", "NonNull", "Unspecified"}}
SuffixStripped(kind) ==
    CASE kind \in {"ObjCId", "ObjCObjectPointer"} ->
             {Const, NullableResult} \cup LifetimeTokens \cup NullabilityTokens
      [] kind \in {"BlockPointer", "Typedef", "IncompleteArray"} ->
             {Const} \cup LifetimeTokens \cup NullabilityTokens
      [] kind = "ObjCClass" -> LifetimeTokens \cup NullabilityTokens
      [] kind = "ConstantArray" -> {Const} \cup NullabilityTokens
      [] kind \in {"ObjCSel", "Pointer"} -> NullabilityTokens
PrefixStripped(kind) ==
    CASE kind = "ObjCId" -> LifetimeTokens
      [] kind = "ObjCObjectPointer" -> {Kindof}
      [] kind = "Typedef" -> {Kindof, Const} \cup LifetimeTokens
      [] kind = "BlockPointer" -> SupportedTokens
      [] OTHER -> {}

\* C8, corrected: every AttributeParser whose residue is not the canonical
\* name logs "could not extract all attributes", once; the canonical spelling
\* leaves no residue, and a spelling with one supported token leaves no
\* residue exactly when the arm of the kind strips that token at that place.
C8_ResidueCanonicalOrLogged ==
    tp_pc = "done" =>
        /\ DropErrors = Mismatches
        /\ \A shape \in {s \in Shapes : s.ty = tp_st.ty} :
              /\ tp_input = shape.ty => AllResiduesCanonical
              /\ \A t \in SupportedTokens :
                    /\ tp_input = Spelled(shape, <<>>, <<t>>) =>
                          (AllResiduesCanonical <=> t \in SuffixStripped(shape.ty.kind))
                    /\ tp_input = Spelled(shape, <<t>>, <<>>) =>
                          (AllResiduesCanonical <=> t \in PrefixStripped(shape.ty.kind))

C8_Witness ==
    /\ tp_pc = "done"
    /\ tp_input = Spelled(Shape(CT("ObjCId", <<"id">>), <<"id">>, <<>>), <<>>,
                          <<NullabilityNeedle("NonNull")>>)
    /\ Len(tp_result.drops) = 1
    /\ AllResiduesCanonical
    /\ tp_result.log = <<>>

DoubledCanonicalPlain == <<"const", " ", "char", " ", "*", "[", "]">>
DoubledCanonicalNonnull == <<"const", " ", "char", " ", "*", " ", "_Nonnull", "[", "]">>

\* C9 as stated: the attributed name "const char * _Nonnull  _Nonnull[]" with
\* the canonical name "const char *[]" gives nullability NonNull and the
\* scope-exit check of the parser logs no error.
C9_DoubledNonnullPlainNoError ==
    (tp_pc = "done" /\ tp_input = DoubledArray(DoubledCanonicalPlain)) =>
        /\ tp_result.ty.nullability = "NonNull"
        /\ DropErrors = 0

\* C9, corrected: the attributed name "const char * _Nonnull  _Nonnull[]"
\* gives nullability NonNull and no error when the canonical name is
\* "const char * _Nonnull[]"; with the canonical name "const char *[]" it
\* gives NonNull and the residue "const char * _Nonnull", which is logged.
C9_DoubledNonnullNeedsCanonicalNonnull ==
    tp_pc = "done" =>
        /\ tp_input = DoubledArray(DoubledCanonicalNonnull) =>
              /\ tp_result.ty.tag = "IncompleteArray"
              /\ tp_result.ty.nullability = "NonNull"
              /\ tp_result.log = <<>>
              /\ AllResiduesCanonical
        /\ tp_input = DoubledArray(DoubledCanonicalPlain) =>
              /\ tp_result.ty.tag = "IncompleteArray"
              /\ tp_result.ty.nullability = "NonNull"
              /\ DropErrors = 1
              /\ tp_result.drops[Len(tp_result.drops)] =
                    [name |-> <<"const", " ", "char", " ", "*", " ", "_Nonnull">>,
                     expected_name |-> <<"const", " ", "char", " ", "*">>]

C9_Witness ==
    /\ tp_pc = "done"
    /\ tp_input = DoubledArray(DoubledCanonicalNonnull)
    /\ tp_result.ty.nullability = "NonNull"
    /\ tp_result.log = <<>>

\* The typedef names that Ty::parse does not give a TypeDef for.
NotATypeDef(t) ==
    \/ t.decl_kind = "TemplateTypeParameter"
    \/ Len(t.decl_name) = 1 /\
         t.decl_name[1] \in TypedefPrimitives \cup {"Float80", "Float96", "instancetype"}

\* Whether a clang typedef meets (a), (b), (c) or (d).
RECURSIVE ClassifiedCf(_)
ClassifiedCf(t) ==
    LET to == ModifiedOf(t.inner[1])[1]
        is_pointer == to.kind = "Pointer"
        pointee_kind == IF is_pointer THEN ModifiedOf(to.inner[1])[1].kind ELSE "None"
    IN \/ to.kind = "Typedef" /\ ~NotATypeDef(to) /\ ClassifiedCf(to)
       \/ is_pointer /\ pointee_kind = "Record" /\ ModifiedOf(to.inner[1])[1].bridged
       \/ t.decl_name \in KnownCfTypes /\ is_pointer /\ pointee_kind \in {"Record", "Void"}
       \/ is_pointer /\ pointee_kind = "Void" /\ t.bridged

\* C10: the TypeDef that Ty::parse gives for a typedef has is_cf set if and
\* only if (a) the target of the typedef is itself a typedef classified CF,
\* (b) the target is a pointer to a bridged struct, (c) the name is in the
\* list of known CF types and the target is a pointer to a struct or to void,
\* or (d) the target is a pointer to void and the typedef is bridged.
C10_IsCfIffClassified ==
    (tp_pc = "done" /\ tp_result.ty.tag = "TypeDef" /\ tp_st.ty.kind = "Typedef")
    => (tp_result.ty.is_cf <=> ClassifiedCf(tp_st.ty))

C10_Witness ==
    /\ tp_pc = "done"
    /\ tp_result.ty.tag = "TypeDef"
    /\ tp_result.ty.is_cf
    /\ tp_result.ty.inner[1].tag = "TypeDef"
    /\ tp_st.ty.decl_name \notin KnownCfTypes
    /\ ~tp_st.ty.bridged

\* Whether the call tf_out records was a call of this method.
Did(op) == tf_pc \in {"done", "panicked"} /\ tf_out.op = op

\* C11 as stated: after try_fix_related_result_type on the return type of a
\* method that returns an object type, the pointee of the return type is
\* Self_.
C11_ObjectReturnBecomesSelf ==
    (/\ Did("try_fix_related_result_type")
     /\ tf_out.self.tag = "Pointer"
     /\ IsObjectLike(tf_out.self.inner[1]))
    => (tf_pc = "done" /\ tf_self.inner[1] = TyOf("Self_"))

\* C11, corrected: try_fix_related_result_type rewrites the pointee to Self_
\* only when the type is a Pointer to AnyObject without protocols (plain id);
\* a Pointer to AnyObject with protocols is left as it is with a warning, a
\* Pointer to anything else is left as it is silently, and a type that is
\* not a Pointer makes the call panic.
C11_OnlyPlainIdBecomesSelf ==
    Did("try_fix_related_result_type") =>
        LET before == tf_out.self IN
        IF before.tag # "Pointer"
        THEN tf_pc = "panicked" /\ tf_self = before
        ELSE /\ tf_pc = "done"
             /\ tf_self.tag = "Pointer"
             /\ \A field \in {"nullability", "is_const", "lifetime"} :
                   tf_self[field] = before[field]
             /\ IF before.inner[1].tag = "AnyObject"
                THEN IF before.inner[1].protocols = <<>>
                     THEN tf_self.inner[1].tag = "Self_" /\ ~tf_out.logged
                     ELSE tf_self = before /\ tf_out.logged
                ELSE tf_self = before /\ ~tf_out.logged

C11_Witness ==
    /\ Did("try_fix_related_result_type")
    /\ tf_pc = "done"
    /\ tf_out.self.inner[1] = TyAnyObject(<<>>)
    /\ tf_self.inner[1].tag = "Self_"

\* A name without its trailing "Ref".
MinusRef(name) ==
    IF name # <<>> /\ name[Len(name)] = "Ref" THEN SubSeq(name, 1, Len(name) - 1)
    ELSE name

\* Whether a name occurs in a function name.
OccursIn(name, fn_name) ==
    \E i \in 1..(Len(fn_name) + 1) : \E j \in (i - 1)..Len(fn_name) :
        SubSeq(fn_name, i, j) = name

\* C12: fix_fn_first_argument_cf_nullability(fn_name) changes a type only
\* when it is a TypeDef with is_cf and nullability Unspecified whose name,
\* minus a trailing "Ref", occurs in fn_name and is neither CFAllocator nor
\* ODSession; then it sets the nullability to NonNull and nothing else; in
\* every other case the type is left as it is.
C12_CfFirstArgumentNonNull ==
    Did("fix_fn_first_argument_cf_nullability") =>
        LET before == tf_out.self
            marks == /\ before.tag = "TypeDef"
                     /\ before.is_cf
                     /\ before.nullability = "Unspecified"
                     /\ OccursIn(MinusRef(before.name), tf_name)
                     /\ MinusRef(before.name) # <<"CFAllocator">>
                     /\ MinusRef(before.name) # <<"ODSession">>
        IN /\ tf_pc = "done"
           /\ tf_self = IF marks THEN [before EXCEPT !.nullability = "NonNull"]
                        ELSE before

C12_Witness ==
    /\ Did("fix_fn_first_argument_cf_nullability")
    /\ tf_out.self.nullability = "Unspecified"
    /\ tf_out.self.name = <<"CFString", "Ref">>
    /\ tf_name = <<"CFString", "Create", "Copy">>
    /\ tf_self.nullability = "NonNull"

\* CFStringCreateCopy(CFAllocatorRef, CFStringRef), both arguments CF
\* typedefs of Unspecified nullability, before the global analysis.
CreateCopyAnalysed ==
    /\ Did("global_analysis")
    /\ tf_name = <<"CFString", "Create", "Copy">>
    /\ Len(tf_out.args) = 2
    /\ tf_out.args[1].name = <<"CFAllocator", "Ref">>
    /\ tf_out.args[2].name = <<"CFString", "Ref">>
    /\ \A i \in 1..2 : tf_out.args[i].nullability = "Unspecified"

ObjectKinds == {"Class", "GenericParam", "AnyObject", "AnyProtocol", "AnyClass", "Self_"}

\* An object-like pointer type whose lifetime is Unspecified.
ObjectPointer(ty) ==
    /\ ty.tag = "Pointer"
    /\ ty.lifetime = "Unspecified"
    /\ ty.inner[1].tag \in ObjectKinds

\* An object-like or CF typedef: a typedef marked is_cf, or one of an object
\* pointer.
ObjectTypedef(ty) ==
    /\ ty.tag = "TypeDef"
    /\ \/ ty.is_cf
       \/ ty.inner[1].tag = "Pointer" /\ ty.inner[1].inner[1].tag \in ObjectKinds

\* C19 as stated: for every object-like pointer type and every object-like
\* or CF typedef whose lifetime is Unspecified, method_return renders
\* Retained<T> when the nullability is NonNull and Option<Retained<T>> when
\* it is Nullable; C99Bool and ObjcBool render as bool.
C19_ObjectReturnsRetained ==
    Did("method_return") =>
        LET self == tf_out.self
            text == tf_out.text
        IN /\ (ObjectPointer(self)
               \/ (ObjectTypedef(self) /\ self.lifetime = "Unspecified"))
              => /\ self.nullability = "NonNull" => text.wrapper = " -> Retained<{}>"
                 /\ self.nullability = "Nullable"
                    => text.wrapper = " -> Option<Retained<{}>>"
           /\ (self.tag = "Primitive" /\ self.prim \in {"C99Bool", "ObjcBool"})
              => text.wrapper = " -> bool"

\* C19, corrected: method_return renders a retained handle for an
\* object-like pointer of Unspecified lifetime unless the pointee is the
\* static object AnyClass, and for an object-like or CF typedef of any
\* lifetime: Retained<T> when the nullability is NonNull, Option<Retained<T>>
\* otherwise (Nullable or Unspecified). A pointer to AnyClass renders as
\* fn_return renders it, &'static T when NonNull and Option<&'static T>
\* otherwise. C99Bool and ObjcBool render as bool.
C19_RetainedUnlessStatic ==
    Did("method_return") =>
        LET self == tf_out.self
            text == tf_out.text
            nonnull == self.nullability = "NonNull"
        IN /\ (ObjectPointer(self) /\ self.inner[1].tag # "AnyClass")
              => text = Written(IF nonnull THEN " -> Retained<{}>"
                                ELSE " -> Option<Retained<{}>>",
                                "behind_pointer", self.inner[1])
           /\ (self.tag = "Pointer" /\ self.inner[1].tag = "AnyClass")
              => text = Written(IF nonnull THEN " -> &'static {}"
                                ELSE " -> Option<&'static {}>",
                                "behind_pointer", self.inner[1])
           /\ ObjectTypedef(self)
              => text = Written(IF nonnull THEN " -> Retained<{}>"
                                ELSE " -> Option<Retained<{}>>", "path", self)
           /\ (self.tag = "Primitive" /\ self.prim \in {"C99Bool", "ObjcBool"})
              => text = Written(" -> bool", "none", self)

C19_Witness ==
    /\ Did("method_return")
    /\ ObjectPointer(tf_out.self)
    /\ tf_out.self.inner[1].tag = "AnyClass"
    /\ tf_out.self.nullability = "NonNull"
    /\ tf_out.text.wrapper = " -> &'static {}"

\* C20 as stated: method_return_with_error renders a nullable object return
\* (object-like pointer or object-like/CF typedef, lifetime Unspecified) as
\* Result<Retained<T>, Retained<NSError>> and an ObjcBool return as
\* Result<(), Retained<NSError>>; for every other return type it logs an
\* error and renders exactly what method_return renders.
C20_NullableObjectIsResult ==
    Did("method_return_with_error") =>
        LET self == tf_out.self
            text == tf_out.text
        IN IF /\ ObjectPointer(self) \/ (ObjectTypedef(self)
                                         /\ self.lifetime = "Unspecified")
              /\ self.nullability = "Nullable"
           THEN text.wrapper = " -> Result<Retained<{}>, Retained<NSError>>"
                /\ ~tf_out.logged
           ELSE IF self.tag = "Primitive" /\ self.prim = "ObjcBool"
           THEN text.wrapper = " -> Result<(), Retained<NSError>>" /\ ~tf_out.logged
           ELSE tf_out.logged /\ text = MethodReturn(self)

\* C20, corrected: method_return_with_error renders a nullable object return
\* of Unspecified lifetime as Result<Retained<T>, Retained<NSError>> when it
\* is an object-like/CF typedef or a pointer that is not const and whose
\* pointee is not AnyClass; a nullable non-const pointer to AnyClass renders
\* as Result<&'static T, Retained<NSError>>; ObjcBool renders as
\* Result<(), Retained<NSError>>; every other return type, a const pointer
\* to an object among them, logs an error and renders exactly what
\* method_return renders.
C20_ResultUnlessConstOrStatic ==
    Did("method_return_with_error") =>
        LET self == tf_out.self
            text == tf_out.text
            nullable == self.nullability = "Nullable" /\ self.lifetime = "Unspecified"
        IN IF ObjectPointer(self) /\ nullable /\ ~self.is_const
           THEN /\ ~tf_out.logged
                /\ text = Written(IF self.inner[1].tag = "AnyClass"
                                  THEN " -> Result<&'static {}, Retained<NSError>>"
                                  ELSE " -> Result<Retained<{}>, Retained<NSError>>",
                                  "behind_pointer", self.inner[1])
           ELSE IF ObjectTypedef(self) /\ nullable
           THEN /\ ~tf_out.logged
                /\ text = Written(" -> Result<Retained<{}>, Retained<NSError>>",
                                  "path", self)
           ELSE IF self.tag = "Primitive" /\ self.prim = "ObjcBool"
           THEN /\ ~tf_out.logged
                /\ text = Written(" -> Result<(), Retained<NSError>>", "none", self)
           ELSE tf_out.logged /\ text = MethodReturn(self)

C20_Witness ==
    /\ Did("method_return_with_error")
    /\ ObjectPointer(tf_out.self)
    /\ tf_out.self.nullability = "Nullable"
    /\ tf_out.self.is_const
    /\ tf_out.self.inner[1].tag = "Class"
    /\ tf_out.logged
    /\ tf_out.text.wrapper = " -> Option<Retained<{}>>"


\* C14 as stated: when a nullability conflict is detected (update_nullability
\* is called on an already-set nullability with a parsed value, or
\* check_nullability finds that the parsed nullability differs from the one
\* Clang reports), the conflict is logged and the nullability used for the
\* resulting type is Unspecified.
C14_ConflictGivesUnspecified ==
    /\ (/\ Did("update_nullability")
        /\ tf_out.self.nullability # "Unspecified"
        /\ tf_out.new # "None")
       => (tf_out.logged /\ tf_self.nullability = "Unspecified")
    /\ (Did("check_nullability") /\ tf_out.new # tf_out.on_ty)
       => (tf_out.logged /\ tf_self.nullability = "Unspecified")

\* C14, corrected: both conflicts are logged, but neither falls back to
\* Unspecified. update_nullability called on an already-set nullability with
\* a parsed value keeps the nullability that was already set;
\* check_nullability, when the parsed nullability differs from the one Clang
\* reports, uses the parsed one, and Unspecified only when none was parsed.
\* Without a conflict nothing is logged.
C14_ConflictKeepsParsedValue ==
    /\ Did("update_nullability") =>
          LET old == tf_out.self.nullability
              conflict == old # "Unspecified" /\ tf_out.new # "None"
          IN /\ tf_out.logged <=> conflict
             /\ conflict => tf_self.nullability = old
             /\ ~conflict =>
                   tf_self.nullability = IF tf_out.new = "None" THEN old ELSE tf_out.new
    /\ Did("check_nullability") =>
          /\ tf_out.logged <=> tf_out.new # tf_out.on_ty
          /\ tf_self.nullability =
                IF tf_out.new = "None" THEN "Unspecified" ELSE tf_out.new

C14_Witness ==
    /\ Did("update_nullability")
    /\ tf_out.self.nullability = "NonNull"
    /\ tf_out.new = "Nullable"
    /\ tf_out.logged
    /\ tf_self.nullability = "NonNull"


\* The macro a spelling under an Unexposed type starts with.
FirstMacro(ty) == Head(ty.display)

Stacked ==
    /\ tp_input.kind = "Unexposed"
    /\ tp_input.inner # <<>>
    /\ tp_input.inner[1].kind = "Unexposed"

\* The names UnexposedAttr::from_name knows.
MacroNames ==
    {"NS_RETURNS_RETAINED", "NS_RETURNS_NOT_RETAINED", "NS_NOESCAPE", "NS_SWIFT_UI_ACTOR",
     "NS_SWIFT_NONISOLATED", "NS_SWIFT_SENDABLE", "NS_SWIFT_NONSENDABLE",
     "NS_RETURNS_INNER_POINTER", "NS_REFINED_FOR_SWIFT", "NS_SWIFT_NAME",
     "NS_SWIFT_UNAVAILABLE", "API_AVAILABLE", "API_UNAVAILABLE", "API_DEPRECATED",
     "API_DEPRECATED_WITH_REPLACEMENT"}

\* C16: for a spelling that begins with several recognized macros stacked one
\* after another, all of them are consumed before the type is dispatched on
\* its kind: when the loop ends the type is neither Unexposed nor Attributed,
\* the spelling left for the attribute parser is the spelling of the type
\* under the macros and contains none of them, and each macro's attribute has
\* been applied in turn (NS_NOESCAPE sets no_escape, NS_RETURNS_RETAINED and
\* NS_RETURNS_NOT_RETAINED set the lifetime to Strong and Autoreleasing, the
\* later of two deciding).
C16_StackedMacrosAllConsumed ==
    (Stacked /\ ~Peeling(tp_st) /\ tp_st.panic = "")
    => LET first == FirstMacro(tp_input)
           second == FirstMacro(tp_input.inner[1])
           under == tp_input.inner[1].inner[1]
           Set(macro, lifetime) ==
               IF macro = "NS_RETURNS_RETAINED" THEN "Strong"
               ELSE IF macro = "NS_RETURNS_NOT_RETAINED" THEN "Autoreleasing"
               ELSE lifetime
       IN /\ tp_st.ty.kind \notin {"Unexposed", "Attributed"}
          /\ \A i \in DOMAIN tp_st.attributed_name :
                tp_st.attributed_name[i] \notin MacroNames
          /\ tp_st.attributed_name = Render(under.display)
          /\ tp_st.no_escape <=> "NS_NOESCAPE" \in {first, second}
          /\ tp_st.lifetime = Set(second, Set(first, tp_lifetime))

C16_Witness ==
    /\ Stacked
    /\ tp_pc = "done"
    /\ FirstMacro(tp_input) = "NS_RETURNS_RETAINED"
    /\ FirstMacro(tp_input.inner[1]) = "NS_NOESCAPE"
    /\ tp_st.lifetime = "Strong"
    /\ tp_st.no_escape
    /\ tp_st.attributed_name = <<"NSString", " ", "*">>


\* A vector type whose name holds ext_vector_type(N) around a supported
\* primitive: the primitive and the N the name is written with.
VectorInput == tp_input.kind = "ExtVector"
WrittenPrimitive ==
    IF \E i \in DOMAIN tp_input.display : tp_input.display[i] = "unsigned" THEN "UInt"
    ELSE IF \E i \in DOMAIN tp_input.display : tp_input.display[i] = "float" THEN "Float"
    ELSE "Int"
WrittenSize ==
    LET i == CHOOSE i \in DOMAIN tp_input.display : tp_input.display[i] = "ext_vector_type"
    IN ParseUsize(tp_input.display[i + 2])

\* C18: whenever the display name of the type contains ext_vector_type(N)
\* around a supported primitive spelling together with other attributes or
\* qualifiers (a second __attribute__, a const qualifier, the attribute
\* placed before the primitive), Ty::parse returns RustArray{element: that
\* primitive, n: N} at once, with no further parsing.
C18_ExtVectorShortCircuits ==
    (VectorInput /\ tp_pc = "done")
    => /\ tp_result.ty = [TyOf("RustArray") EXCEPT
                             !.inner = <<TyPrimitive(WrittenPrimitive)>>,
                             !.n = WrittenSize]
       /\ tp_result.log = <<>>


\* C15: if the run aborts with a fatal error at any step (writing the output
\* of the k-th library, updating test metadata, the CI file or the list
\* file), nothing written earlier in that run is persisted: no generated
\* directory, symlink, library output or truncated CI file of the failed run
\* remains changed on disk.
C15_FailedRunLeavesNothing ==
    mn_pc = "failed" => mn_disk = mn_before


\* An autoreleasing pointer to a pointer to an object: the outer pointer of
\* Unspecified lifetime, the inner one Autoreleasing, the pointee object-like.
AutoreleasingOut(ty) ==
    /\ ty.tag = "Pointer" /\ ty.lifetime = "Unspecified"
    /\ ty.inner[1].tag = "Pointer" /\ ty.inner[1].lifetime = "Autoreleasing"
    /\ ty.inner[1].inner[1].tag \in ObjectKinds

\* C21 as stated: method_argument renders an autoreleasing
\* pointer-to-pointer-to-object as &mut Option<Retained<T>> and every other
\* type as fn_argument does (C99Bool and ObjcBool as bool).
C21_OutArgumentIsMutOption ==
    Did("method_argument") =>
        LET self == tf_out.self IN
        IF AutoreleasingOut(self)
        THEN tf_out.text = Written("&mut Option<Retained<{}>>", "behind_pointer",
                                   self.inner[1].inner[1])
        ELSE IF self.tag = "Primitive" /\ self.prim \in {"C99Bool", "ObjcBool"}
        THEN tf_out.text.wrapper = "bool"
        ELSE tf_out.text = FnArgument(self)

\* C21, corrected: method_argument renders a non-const pointer of Unspecified
\* lifetime to an Autoreleasing pointer as a mutable reference to a retained
\* handle whose optionality follows the two nullabilities: the handle is
\* Retained<T> when the inner pointer is NonNull and Option<Retained<T>>
\* otherwise, the reference is &mut when the outer pointer is NonNull and
\* Option<&mut ..> otherwise; the pointee is not looked at.  A const outer
\* pointer and every other type render as fn_argument does, C99Bool and
\* ObjcBool as bool.
C21_OutArgumentFollowsNullability ==
    Did("method_argument") =>
        LET self == tf_out.self IN
        IF /\ self.tag = "Pointer" /\ self.lifetime = "Unspecified" /\ ~self.is_const
           /\ self.inner[1].tag = "Pointer" /\ self.inner[1].lifetime = "Autoreleasing"
        THEN tf_out.text =
                Written(CASE self.nullability = "NonNull"
                                /\ self.inner[1].nullability = "NonNull"
                               -> "&mut Retained<{}>"
                          [] self.nullability = "NonNull"
                                /\ self.inner[1].nullability # "NonNull"
                               -> "&mut Option<Retained<{}>>"
                          [] self.nullability # "NonNull"
                                /\ self.inner[1].nullability = "NonNull"
                               -> "Option<&mut Retained<{}>>"
                          [] OTHER -> "Option<&mut Option<Retained<{}>>>",
                        "behind_pointer", self.inner[1].inner[1])
        ELSE IF self.tag = "Primitive" /\ self.prim \in {"C99Bool", "ObjcBool"}
        THEN tf_out.text = Written("bool", "none", self)
        ELSE tf_out.text = FnArgument(self)

C21_Witness ==
    /\ Did("method_argument")
    /\ AutoreleasingOut(tf_out.self)
    /\ tf_out.self.nullability = "Nullable"
    /\ tf_out.self.inner[1].nullability = "Nullable"
    /\ ~tf_out.self.is_const
    /\ tf_out.text.wrapper = "Option<&mut Option<Retained<{}>>>"

\* C22: argument_is_error_out returns true exactly for a pointer with
\* Unspecified lifetime to an Autoreleasing, Nullable, non-const pointer to
\* the class NSError without generics or protocols, and returns false for
\* every other argument type, pointers to NSError pointers with another
\* nullability, lifetime or constness included.
C22_ErrorOutExactlyNSErrorOut ==
    /\ tf_pc = "panicked" => tf_out.op # "argument_is_error_out"
    /\ Did("argument_is_error_out") =>
          LET self == tf_out.self IN
          tf_out.logged <=>
              /\ self.tag = "Pointer" /\ self.lifetime = "Unspecified"
              /\ self.inner[1].tag = "Pointer"
              /\ self.inner[1].lifetime = "Autoreleasing"
              /\ self.inner[1].nullability = "Nullable"
              /\ ~self.inner[1].is_const
              /\ self.inner[1].inner[1] = TyClass(<<"NSError">>, <<>>, <<>>)


\* The renderings of the emission positions, and the required items of the
\* position a call of tf_out rendered for: fn_return_required_items for the
\* return type of a function, required_items for the others.
RenderingOps ==
    {"fn_return", "method_return", "method_return_with_error", "fn_argument",
     "method_argument"}

PositionRequiredItems ==
    IF tf_out.op = "fn_return" THEN FnReturnRequiredItems(tf_out.self)
    ELSE RequiredItems(tf_out.self)

\* The names the renderings write that no required_items function of a
\* type pushes for them.
WrapperNames == {<<"Retained">>, <<"ProtocolObject">>, <<"ArrayUnknownABI">>}

\* C23 as stated: for every Ty and every emission position, every identifier
\* that appears in the rendered form (Retained, NonNull, ArrayUnknownABI,
\* NSError, Block, AnyObject, ProtocolObject, Sel, and the names of
\* declarations) is a member of the required items of that position.
C23_WrittenIdentifiersRequired ==
    (tf_pc = "done" /\ tf_out.op \in RenderingOps) =>
        WrittenIdentifiers(tf_out.text) \subseteq PositionRequiredItems

\* C23, corrected: the names of declarations (classes, protocols, typedefs,
\* structs), and NonNull, Sel, Block, AnyObject, AnyClass, AnyProtocol and
\* the primitives of core::ffi and objc2, are members of the required items
\* of the position whenever the rendered type writes them.  Retained,
\* ProtocolObject and ArrayUnknownABI are not members wherever they are
\* written, and nothing is said of the NSError that the Result of
\* method_return_with_error writes.
C23_DeclarationNamesRequired ==
    (tf_pc = "done" /\ tf_out.op \in RenderingOps) =>
        LET written == WrittenIdentifiers(tf_out.text)
            of_type == WrittenIdentifiers(Written("", tf_out.text.form, tf_out.text.ty))
        IN /\ (of_type \ WrapperNames) \subseteq PositionRequiredItems
           /\ written \cap WrapperNames \cap PositionRequiredItems = {}

C23_Witness ==
    /\ Did("method_return")
    /\ tf_out.self.tag = "Pointer"
    /\ tf_out.self.nullability = "NonNull"
    /\ tf_out.self.inner[1] = TyAnyObject(<< <<"NSCopying">> >>)
    /\ WrittenIdentifiers(tf_out.text)
          = {<<"Retained">>, <<"ProtocolObject">>, <<"NSCopying">>}
    /\ PositionRequiredItems = {<<"AnyObject">>, <<"NSCopying">>, <<"NonNull">>}

\* The first type of a chain of typedefs that is no typedef, the number of
\* pointers that lead from a type to the type it ends in, through typedefs
\* and pointers, and that type.
RECURSIVE ChainTarget(_), PointerLevels(_), ChainEnd(_)
ChainTarget(ty) == IF ty.tag = "TypeDef" THEN ChainTarget(ty.inner[1]) ELSE ty

PointerLevels(ty) ==
    IF ty.tag = "TypeDef" THEN PointerLevels(ty.inner[1])
    ELSE IF ty.tag = "Pointer" THEN 1 + PointerLevels(ty.inner[1])
    ELSE 0

ChainEnd(ty) ==
    IF ty.tag \in {"TypeDef", "Pointer"} THEN ChainEnd(ty.inner[1]) ELSE ty

\* C27: is_object_like is true for a chain of typedefs of any depth whose
\* innermost target is a single pointer to a class, a generic parameter,
\* AnyObject, AnyProtocol, AnyClass or Self, and false when the chain ends
\* in a type that is no object or goes through more than one pointer level.
C27_NestedTypedefIsObjectLike ==
    (Did("is_object_like") /\ tf_out.self.tag = "TypeDef") =>
        LET self == tf_out.self
            target == ChainTarget(self)
        IN /\ (target.tag = "Pointer" /\ target.inner[1].tag \in ObjectKinds)
                 => tf_out.logged
           /\ (ChainEnd(self).tag \notin ObjectKinds \/ PointerLevels(self) > 1)
                 => ~tf_out.logged

C27_Witness ==
    /\ Did("is_object_like")
    /\ tf_out.self.tag = "TypeDef"
    /\ tf_out.self.inner[1].tag = "TypeDef"
    /\ tf_out.self.inner[1].inner[1].tag = "TypeDef"
    /\ ChainTarget(tf_out.self)
          = TyPointer("Unspecified", FALSE, "Unspecified",
                      TyClass(<<"NSString">>, <<>>, <<>>))
    /\ tf_out.logged

\* The first value of a sequence of updates that is not Unspecified, or
\* Unspecified when there is none.
RECURSIVE FirstSet(_)
FirstSet(calls) ==
    IF calls = <<>> THEN "Unspecified"
    ELSE IF Head(calls).new # "Unspecified" THEN Head(calls).new
    ELSE FirstSet(Tail(calls))

\* C30: after any sequence of Lifetime::update calls on a cell that starts
\* Unspecified, the cell holds the first value passed that is not
\* Unspecified (Unspecified if there was none), and no update, silent or
\* logged, changes a value that is set.
C30_FirstSetValueWins ==
    /\ (lt_pc = "run" /\ lt_calls # <<>> /\ lt_calls[1].old = "Unspecified")
          => lt_cell = FirstSet(lt_calls)
    /\ \A i \in 1..Len(lt_calls) :
          lt_calls[i].old # "Unspecified" => lt_calls[i].after = lt_calls[i].old

C30_Witness ==
    /\ Len(lt_calls) = MaxUpdates
    /\ lt_calls[1].old = "Unspecified"
    /\ lt_calls[1].new = "Unspecified"
    /\ lt_calls[2].new = "Weak"
    /\ lt_calls[MaxUpdates].new = "Strong"
    /\ lt_calls[MaxUpdates].logged
    /\ lt_cell = "Weak"

\* C24: for every byte sequence b, the empty one included,
\* CFData::from_bytes(b).to_vec() equals b, len() equals the length of b and
\* is_empty() is true exactly when b is empty, a null byte pointer being
\* read as the empty slice.
C24_FromBytesRoundTrips ==
    cd_pc = "created" =>
        /\ cd_out.op = "to_vec" => cd_out.vec = <<cd_bytes>>
        /\ cd_out.op = "len" => cd_out.len = <<Len(cd_bytes)>>
        /\ cd_out.op = "is_empty" => cd_out.empty = <<cd_bytes = <<>> >>

C24_Witness ==
    /\ cd_pc = "created"
    /\ cd_bytes = <<1, 0, 255>>
    /\ cd_out.op = "to_vec"
    /\ cd_out.vec = << <<1, 0, 255>> >>

\* C25: a StrongPtr owns exactly one retain: clone() raises the retain count
\* of the object by one and gives a pointer to the same object, dropping a
\* StrongPtr lowers it by one, and after any sequence of clones and drops
\* (no release being owed by an autorelease pool) the retain count equals
\* the number of live StrongPtrs to the object.
C25_RetainCountIsLiveStrongPtrs ==
    rc_pc = "run" =>
        /\ rc_pool = 0 => rc_count = rc_strong
        /\ rc_out.op = "clone" => rc_count = rc_out.count + 1 /\ rc_out.ptr = "object"
        /\ rc_out.op = "drop" => rc_count = rc_out.count - 1

C25_Witness ==
    /\ rc_pc = "run"
    /\ rc_out.op = "drop"
    /\ rc_out.count = MaxPtrs
    /\ rc_out.strong = MaxPtrs
    /\ rc_count = MaxPtrs - 1
    /\ rc_strong = MaxPtrs - 1

\* C26: a WeakPtr does not retain its object; while a StrongPtr to the
\* object is alive, load() on the WeakPtr and on any clone of it gives a
\* strong pointer to that object; after the last StrongPtr was dropped and
\* the object deallocated, load() gives null.
C26_WeakLoadsWhileAlive ==
    rc_pc = "run" =>
        /\ rc_out.op \in {"weak", "weak_clone", "weak_drop"} => rc_count = rc_out.count
        /\ (rc_out.op = "load" /\ rc_out.strong > 0)
              => rc_out.ptr = "object" /\ rc_strong = rc_out.strong + 1
        /\ (rc_out.op = "load" /\ rc_out.count = 0)
              => rc_out.ptr = "null" /\ rc_count = 0 /\ rc_strong = 0

C26_Witness ==
    /\ rc_pc = "run"
    /\ rc_out.op = "load"
    /\ rc_out.count = 0
    /\ rc_out.ptr = "null"
    /\ rc_weak > 1

\* The entities visited so far that are no inclusion directive, macro
\* expansion or macro definition.
VisitedOthers ==
    {i \in 1..Len(tu_visits) : tu_entities[i].kind \notin PreprocessingKinds}

\* C28: the preprocessing phase of parse_translation_unit is one-way:
\* macro_invocations is inserted into, and modules are added from inclusion
\* directives, only before the first entity that is no inclusion directive,
\* macro expansion or macro definition; once such an entity was visited,
\* `preprocessing` is false for good and no later entity changes
\* macro_invocations, and Stmt::parse is not called before that entity.
C28_PreprocessingIsOneWay ==
    /\ tu_preprocessing <=> VisitedOthers = {}
    /\ \A i \in 1..Len(tu_visits) :
          LET after_first == \E k \in VisitedOthers : k <= i IN
          /\ tu_visits[i].before <=> ~(\E k \in VisitedOthers : k < i)
          /\ after_first => i \notin tu_macro_invocations \cup tu_modules
          /\ ~after_first => \A j \in 1..Len(tu_stmts) : tu_stmts[j] # i

C28_Witness ==
    /\ tu_pc = "visit"
    /\ Len(tu_entities) = MaxEntities
    /\ Len(tu_visits) = MaxEntities
    /\ tu_entities[1].kind = "MacroExpansion"
    /\ tu_entities[2].kind = "ObjCInterfaceDecl"
    /\ tu_entities[MaxEntities].kind = "MacroExpansion"
    /\ tu_macro_invocations = {1}
    /\ tu_stmts = <<2, MaxEntities>>
    /\ ~tu_preprocessing

\* The place of the first begin marker of a text, and of the first end
\* marker after it; 0 when there is none.
BeginAt(text) ==
    IF \E i \in 1..Len(text) : text[i] = "BEGIN"
    THEN CHOOSE i \in 1..Len(text) :
            text[i] = "BEGIN" /\ \A j \in 1..(i - 1) : text[j] # "BEGIN"
    ELSE 0

EndAt(text) ==
    LET b == BeginAt(text) IN
    IF b > 0 /\ \E i \in (b + 1)..Len(text) : text[i] = "END"
    THEN CHOOSE i \in (b + 1)..Len(text) :
            text[i] = "END" /\ \A j \in (b + 1)..(i - 1) : text[j] # "END"
    ELSE 0

\* Whether a call left every byte before the begin marker and after the
\* end marker as it was.
KeepsOutside(run) ==
    /\ BeginAt(run.after) = BeginAt(run.before)
    /\ SubSeq(run.after, 1, BeginAt(run.after))
          = SubSeq(run.before, 1, BeginAt(run.before))
    /\ EndAt(run.after) > 0
    /\ SubSeq(run.after, EndAt(run.after), Len(run.after))
          = SubSeq(run.before, EndAt(run.before), Len(run.before))

=============================================================================
